---- MODULE Spec2Model ----
(***************************************************************************)
(* A model of the mailio protocol core: the asynchronous mutex             *)
(* (detail/async_mutex.hpp), the authentication policy gate                *)
(* (detail/auth_policy.hpp) with the three login paths, and the SMTP       *)
(* submission transaction (smtp/client.hpp, smtp.hpp).                     *)
(***************************************************************************)
EXTENDS Integers, Sequences, FiniteSets, TLC

(***************************************************************************)
(* Bounds of the model.                                                    *)
(***************************************************************************)
NumTasks == 3

\* lock() calls made in one run, over all tasks.
MaxLockCalls == 3

Tasks == 1..NumTasks

\* One waiter_t object per lock() call that has to wait.  A task holds at
\* most one reference (its own pending call, or the local of its unlock()),
\* so NumTasks objects are always enough.
WaiterIds == 1..NumTasks

None == 0

\* The scoped_lock objects a task owns: the variable that receives the result
\* of lock(), and a second guard it can move to or assign from.
Slots == {"g", "h"}

VARIABLES
    locked,     \* async_mutex::locked_
    waiters,    \* async_mutex::waiters_ (deque of waiter_t)
    ready,      \* waiter_t::ready, per waiter object
    timer,      \* waiter_t::timer: "unset", "pending" (a wait is in flight),
                \* "aborted" (the wait completed with operation_aborted)
    pc,         \* where each task is inside lock() / unlock()
    mine,       \* lock()'s local `waiter`, per task
    popped,     \* unlock()'s local `waiter`, per task
    mutex_,     \* scoped_lock::mutex_ != nullptr, per task and guard
    op,         \* the guard operation a task is in: destructor or operator=
    outcome,    \* how the last lock() call that ended, ended
    cancelled,  \* history: the pending wait of the task's call was cancelled
    arrival,    \* history: waiter objects in the order they were queued
    owners,     \* history: guards returned by lock() minus unlock() calls
    calls,      \* history: lock() calls made so far
    \* ---- a session about to authenticate ----
    a_proto,    \* which client: "smtp", "pop3" or "imap"
    a_opts,     \* the session's options: require_tls_for_auth, allow_cleartext_auth
    a_tls,      \* upgradable_stream::is_tls() of the session's stream
    a_pc,       \* where the authenticate / login coroutine is
    a_wire,     \* the lines the session has written to the network
    a_result,   \* how the authenticate / login call ended
    a_gate,     \* the outcome of a call of ensure_auth_allowed
    a_tag,      \* imap_client::tag_
    \* ---- one SMTP submission ----
    s_variant,  \* "send": smtp::client::send; "submit": smtp_client::submit_impl
    s_msg,      \* the message: sender, from, to, cc, bcc
    s_env,      \* the envelope: mail_from, rcpt_to
    s_pc,       \* the reply the coroutine is suspended on, "idle" or "done"
    s_rcpts,    \* the recipients the loop runs over
    s_i,        \* how many of them have been written
    s_wire,     \* the commands written to the network, in order
    s_inbox,    \* the reply lines received and not yet read
    s_served,   \* history: the status of the server's reply to each command
    s_result,   \* "none", "ok" or the message of the error thrown
    \* ---- the reply reader of an SMTP session ----
    r_input,    \* history: every line the server has sent, in order
    r_inbox,    \* the lines received and not yet read
    r_calls,    \* history: the read_reply calls completed, in order
    \* ---- the EHLO exchange of an SMTP session ----
    e_variant,  \* "client": smtp::client::ehlo; "impl": smtp_client::ehlo_impl
    e_pc,       \* the reply the call is suspended on, or "idle"
    e_wire,     \* the commands the current call has written
    e_replies,  \* history: the replies the current call has read
    e_caps,     \* capabilities_.entries: keyword -> parameters
    e_result,   \* how the last call ended: "none", "ok" or the error thrown
    t_client,   \* TLS upgrade: the client class, "smtp" or "pop3"
    t_pc,       \* "closed", "idle", "reply" or "handshake"
    t_call,     \* the current call, the connect arguments, start_tls's locals
    t_remote_host, \* smtp::client::remote_host_ / pop3::host_
    t_dialog,   \* dialog_ / dlg_: the stream and the dialog's settings
    t_local,    \* the local stream of smtp::client::start_tls
    t_io,       \* history: what was exchanged, and whether over TLS
    t_result,   \* how the last call ended: "none", "ok" or the error thrown
    c_call,     \* credential exchange: client, method, user name, password
    c_pc,       \* the position of the authenticate call
    c_wire,     \* the lines the call has written
    c_replies,  \* history: the statuses the call has read
    c_result,   \* how the call ended: "none", "ok" or the error thrown
    d_stream,   \* dialog reads: the stream sent, the part not delivered yet, the ceiling
    d_buffer,   \* dialog::read_buffer_
    d_op,       \* the read in progress
    d_log,      \* history: the completed reads
    x_dlg,      \* timed operations: timeout set, operations started, stale handlers
    x_op,       \* the operation in flight: socket operation, timer, timed_out
    x_done,     \* history: the operation completed last
    p_server,   \* POP3: lines sent by the server and not read yet
    p_call,     \* POP3: the command in progress
    p_result,   \* POP3: what the command returned or threw
    i_client,   \* IMAP: the client object in use (tag_, generation, stream)
    i_server,   \* IMAP: response lines sent by the server and not read yet
    i_call,     \* IMAP: the command in progress and its response
    i_sent,     \* IMAP history: the command lines written
    l_dlg,      \* IMAP reader: bytes sent, bytes on the network, read_buffer_
    l_rsp       \* IMAP reader: read_response_line in progress and its parser

mvars == <<locked, waiters, ready, timer, pc, mine, popped, mutex_, op,
           outcome, cancelled, arrival, owners, calls>>

avars == <<a_proto, a_opts, a_tls, a_pc, a_wire, a_result, a_gate, a_tag>>

svars == <<s_variant, s_msg, s_env, s_pc, s_rcpts, s_i, s_wire, s_inbox, s_served, s_result>>

rvars == <<r_input, r_inbox, r_calls>>

evars == <<e_variant, e_pc, e_wire, e_replies, e_caps, e_result>>

tvars == <<t_client, t_pc, t_call, t_remote_host, t_dialog, t_local, t_io,
           t_result>>

cvars == <<c_call, c_pc, c_wire, c_replies, c_result>>

dvars == <<d_stream, d_buffer, d_op, d_log>>

xvars == <<x_dlg, x_op, x_done>>

pvars == <<p_server, p_call, p_result>>

ivars == <<i_client, i_server, i_call, i_sent>>

lvars == <<l_dlg, l_rsp>>

vars == <<mvars, avars, svars, rvars, evars, tvars, cvars, dvars, xvars,
    pvars, ivars, lvars>>

(***************************************************************************)
(* Sequence helpers.                                                       *)
(***************************************************************************)
Range(s) == {s[i] : i \in 1..Len(s)}

Remove(s, x) == SelectSeq(s, LAMBDA y : y # x)

IndexOf(s, x) == CHOOSE i \in 1..Len(s) : s[i] = x

(***************************************************************************)
(* async_mutex                                                             *)
(***************************************************************************)
NoOp == [kind |-> "none", dst |-> "g", src |-> "g"]

\* The waiter objects some shared_ptr still refers to: the queue, the local
\* of a lock() call, the local of an unlock() call.
RefsOf(q, m, p) ==
    Range(q) \cup {m[t] : t \in Tasks} \cup {p[t] : t \in Tasks}

Referenced == RefsOf(waiters, mine, popped)

\* A waiter object nothing refers to any more is destroyed; its fields are
\* kept at their initial values until make_shared builds the next one.
Destroyed(f, refs, init) ==
    [w \in WaiterIds |-> IF w \in refs THEN f[w] ELSE init]

\* std::make_shared<waiter_t>(executor_)
NewWaiter == CHOOSE w \in WaiterIds : w \notin Referenced

\* What steady_timer::async_wait reports when the wait is cancelled, by
\* timer.cancel() or by the cancellation of the awaiting coroutine.  The
\* expiry is time_point::max(), so a wait never completes any other way.
WaitCancelledEc == "operation_aborted"

\* lines 124-126: the exception lock() leaves with when the waiter is not ready
LockFailure(ec) ==
    IF ec # "success" THEN "system_error" ELSE "lock_cancelled"

Owning(t) == \E s \in Slots : mutex_[t][s]

InUnlock(t) == pc[t] \in {"unlock", "u_ready", "u_cancel"}

\* What async_mutex leaves alone.
MFrame == UNCHANGED <<avars, svars, rvars, evars, tvars, cvars, dvars, xvars,
    pvars, ivars, lvars>>

MInit ==
    /\ locked = FALSE
    /\ waiters = <<>>
    /\ ready = [w \in WaiterIds |-> FALSE]
    /\ timer = [w \in WaiterIds |-> "unset"]
    /\ pc = [t \in Tasks |-> "idle"]
    /\ mine = [t \in Tasks |-> None]
    /\ popped = [t \in Tasks |-> None]
    /\ mutex_ = [t \in Tasks |-> [s \in Slots |-> FALSE]]
    /\ op = [t \in Tasks |-> NoOp]
    /\ outcome = "none"
    /\ cancelled = [t \in Tasks |-> FALSE]
    /\ arrival = <<>>
    /\ owners = 0
    /\ calls = 0

\* lock(), line 102: compare_exchange_strong(expected = false, true) succeeds
\* when locked_ holds false.
CasAlways(l) == TRUE

CasSucceeds(l) == l = FALSE

\* lock(), lines 101-105.  On success the guard is returned at once; on
\* failure the call goes on to queue a waiter.
LockTest(t) ==
    /\ MFrame
    /\ pc[t] = "idle"
    /\ ~Owning(t)
    /\ calls < MaxLockCalls
    /\ calls' = calls + 1
    /\ IF CasSucceeds(locked)
       THEN /\ locked' = TRUE
            /\ mutex_' = [mutex_ EXCEPT ![t]["g"] = TRUE]
            /\ outcome' = "guard"
            /\ owners' = owners + 1
            /\ pc' = pc
       ELSE /\ pc' = [pc EXCEPT ![t] = "push"]
            /\ UNCHANGED <<locked, mutex_, owners, outcome>>
    /\ UNCHANGED <<waiters, ready, timer, mine, popped, op, arrival, cancelled>>

\* lock(), lines 107-113: make the waiter, arm its timer at time_point::max()
\* and push it to the back of the queue under waiters_mutex_.
PushBack(q, w) == Append(q, w)

LockEnqueue(t) ==
    /\ MFrame
    /\ UNCHANGED calls
    /\ pc[t] = "push"
    /\ LET w == NewWaiter IN
        /\ mine' = [mine EXCEPT ![t] = w]
        /\ ready' = [ready EXCEPT ![w] = FALSE]
        /\ timer' = [timer EXCEPT ![w] = "unset"]
        /\ waiters' = PushBack(waiters, w)
        /\ arrival' = Append(arrival, w)
    /\ pc' = [pc EXCEPT ![t] = "await"]
    /\ UNCHANGED <<locked, popped, mutex_, op, outcome, cancelled, owners>>

\* lock(), line 115: the wait on the waiter's timer starts.
LockWait(t) ==
    /\ MFrame
    /\ UNCHANGED calls
    /\ pc[t] = "await"
    /\ timer' = [timer EXCEPT ![mine[t]] = "pending"]
    /\ pc' = [pc EXCEPT ![t] = "waiting"]
    /\ UNCHANGED <<locked, waiters, ready, mine, popped, mutex_, op, outcome,
                   cancelled, arrival, owners>>

\* The coroutine awaiting line 115 is cancelled: its timer wait completes
\* with operation_aborted.
CancelLock(t) ==
    /\ MFrame
    /\ UNCHANGED calls
    /\ pc[t] = "waiting"
    /\ timer[mine[t]] = "pending"
    /\ timer' = [timer EXCEPT ![mine[t]] = "aborted"]
    /\ cancelled' = [cancelled EXCEPT ![t] = TRUE]
    /\ UNCHANGED <<locked, waiters, ready, pc, mine, popped, mutex_, op,
                   outcome, arrival, owners>>

\* lock(), lines 115-117: the wait has completed, the coroutine resumes and
\* loads waiter->ready.
LockResume(t) ==
    /\ MFrame
    /\ UNCHANGED calls
    /\ pc[t] = "waiting"
    /\ timer[mine[t]] = "aborted"
    /\ pc' = [pc EXCEPT ![t] = IF ready[mine[t]] THEN "acquire" ELSE "purge"]
    /\ UNCHANGED <<locked, waiters, ready, timer, mine, popped, mutex_, op,
                   outcome, cancelled, arrival, owners>>

\* lock(), lines 120-122: std::find and erase.
EraseNothing(q, w) == q

Erase(q, w) == Remove(q, w)

\* lock(), lines 119-126: not ready; erase the waiter from the queue if it is
\* still there and throw.
LockPurge(t) ==
    /\ MFrame
    /\ UNCHANGED calls
    /\ pc[t] = "purge"
    /\ waiters' = Erase(waiters, mine[t])
    /\ arrival' = Remove(arrival, mine[t])
    /\ outcome' = LockFailure(WaitCancelledEc)
    /\ mine' = [mine EXCEPT ![t] = None]
    /\ ready' = Destroyed(ready, RefsOf(waiters', mine', popped), FALSE)
    /\ timer' = Destroyed(timer, RefsOf(waiters', mine', popped), "unset")
    /\ cancelled' = [cancelled EXCEPT ![t] = FALSE]
    /\ pc' = [pc EXCEPT ![t] = "idle"]
    /\ UNCHANGED <<locked, popped, mutex_, op, owners>>

\* lock(), lines 129-131: ready; store locked_ and return the guard.
LockAcquire(t) ==
    /\ MFrame
    /\ UNCHANGED calls
    /\ pc[t] = "acquire"
    /\ locked' = TRUE
    /\ mutex_' = [mutex_ EXCEPT ![t]["g"] = TRUE]
    /\ outcome' = "guard"
    /\ owners' = owners + 1
    /\ arrival' = Remove(arrival, mine[t])
    /\ mine' = [mine EXCEPT ![t] = None]
    /\ ready' = Destroyed(ready, RefsOf(waiters, mine', popped), FALSE)
    /\ timer' = Destroyed(timer, RefsOf(waiters, mine', popped), "unset")
    /\ cancelled' = [cancelled EXCEPT ![t] = FALSE]
    /\ pc' = [pc EXCEPT ![t] = "idle"]
    /\ UNCHANGED <<waiters, popped, op>>

\* scoped_lock::unlock(), lines 75-82: a guard without a mutex releases
\* nothing; one with a mutex calls async_mutex::unlock().
GuardReleasesAlways(t, s) == TRUE

GuardReleases(t, s) == mutex_[t][s]

\* ~scoped_lock(), lines 62-65.
GuardDestroy(t, s) ==
    /\ MFrame
    /\ UNCHANGED calls
    /\ pc[t] = "idle"
    /\ IF GuardReleases(t, s)
       THEN /\ pc' = [pc EXCEPT ![t] = "unlock"]
            /\ op' = [op EXCEPT ![t] = [kind |-> "destroy", dst |-> s, src |-> s]]
       ELSE UNCHANGED <<pc, op>>
    /\ UNCHANGED <<locked, waiters, ready, timer, mine, popped, mutex_,
                   outcome, cancelled, arrival, owners>>

\* scoped_lock(scoped_lock&&), lines 47-50: the new guard d takes s's mutex.
GuardMove(t, d, s) ==
    /\ MFrame
    /\ UNCHANGED calls
    /\ pc[t] = "idle"
    /\ d # s
    /\ ~mutex_[t][d]
    /\ mutex_' = [mutex_ EXCEPT ![t] = [@ EXCEPT ![d] = mutex_[t][s], ![s] = FALSE]]
    /\ UNCHANGED <<locked, waiters, ready, timer, pc, mine, popped, op,
                   outcome, cancelled, arrival, owners>>

\* operator=(scoped_lock&&), lines 52-60: unlock() this guard, then take the
\* other's mutex.  Self-assignment does nothing.
GuardAssign(t, d, s) ==
    /\ MFrame
    /\ UNCHANGED calls
    /\ pc[t] = "idle"
    /\ IF d = s
       THEN UNCHANGED <<pc, op, mutex_>>
       ELSE IF GuardReleases(t, d)
            THEN /\ pc' = [pc EXCEPT ![t] = "unlock"]
                 /\ op' = [op EXCEPT ![t] = [kind |-> "assign", dst |-> d, src |-> s]]
                 /\ UNCHANGED mutex_
            ELSE /\ mutex_' = [mutex_ EXCEPT ![t] =
                                   [@ EXCEPT ![d] = mutex_[t][s], ![s] = FALSE]]
                 /\ UNCHANGED <<pc, op>>
    /\ UNCHANGED <<locked, waiters, ready, timer, mine, popped,
                   outcome, cancelled, arrival, owners>>

\* The end of scoped_lock::unlock() (line 80, mutex_ = nullptr) and, for
\* operator=, line 57 (mutex_ = std::exchange(other.mutex_, nullptr)).
GuardAfterUnlock(t) ==
    LET o == op[t] IN
    IF o.kind = "assign"
    THEN [mutex_ EXCEPT ![t] = [@ EXCEPT ![o.dst] = mutex_[t][o.src], ![o.src] = FALSE]]
    ELSE [mutex_ EXCEPT ![t][o.dst] = FALSE]

\* async_mutex::unlock(), line 157: the waiter the lock is handed to.
Back(q) == q[Len(q)]

Front(q) == Head(q)

\* async_mutex::unlock(), line 158.
PopFront(q) == Tail(q)

\* async_mutex::unlock(), line 153: the value stored to locked_ when nobody
\* waits.
Released == FALSE

\* async_mutex::unlock(), lines 148-159, under waiters_mutex_: with an empty
\* queue store locked_ = false and return; else pop the front waiter.
Unlock(t) ==
    /\ MFrame
    /\ UNCHANGED calls
    /\ pc[t] = "unlock"
    /\ owners' = owners - 1
    /\ IF waiters = <<>>
       THEN /\ locked' = Released
            /\ mutex_' = GuardAfterUnlock(t)
            /\ op' = [op EXCEPT ![t] = NoOp]
            /\ pc' = [pc EXCEPT ![t] = "idle"]
            /\ UNCHANGED <<waiters, popped>>
       ELSE /\ popped' = [popped EXCEPT ![t] = Front(waiters)]
            /\ waiters' = PopFront(waiters)
            /\ pc' = [pc EXCEPT ![t] = "u_ready"]
            /\ UNCHANGED <<locked, mutex_, op>>
    /\ UNCHANGED <<ready, timer, mine, outcome, cancelled, arrival>>

\* async_mutex::unlock(), line 161: waiter->ready.store(true).
UnlockReady(t) ==
    /\ MFrame
    /\ UNCHANGED calls
    /\ pc[t] = "u_ready"
    /\ ready' = [ready EXCEPT ![popped[t]] = TRUE]
    /\ pc' = [pc EXCEPT ![t] = "u_cancel"]
    /\ UNCHANGED <<locked, waiters, timer, mine, popped, mutex_, op, outcome,
                   cancelled, arrival, owners>>

\* steady_timer::cancel(): a wait in flight completes with operation_aborted;
\* with none in flight nothing happens.
TimerCancel(state) == IF state = "pending" THEN "aborted" ELSE state

\* async_mutex::unlock(), lines 162-163: waiter->timer.cancel(); a wait in
\* flight completes with operation_aborted, with none in flight nothing
\* happens.  unlock() returns and the guard operation finishes.
UnlockCancel(t) ==
    /\ MFrame
    /\ UNCHANGED calls
    /\ pc[t] = "u_cancel"
    /\ popped' = [popped EXCEPT ![t] = None]
    /\ timer' = Destroyed([timer EXCEPT ![popped[t]] = TimerCancel(@)],
                          RefsOf(waiters, mine, popped'), "unset")
    /\ ready' = Destroyed(ready, RefsOf(waiters, mine, popped'), FALSE)
    /\ mutex_' = GuardAfterUnlock(t)
    /\ op' = [op EXCEPT ![t] = NoOp]
    /\ pc' = [pc EXCEPT ![t] = "idle"]
    /\ UNCHANGED <<locked, waiters, mine, outcome, cancelled, arrival, owners>>

MNext ==
    \/ \E t \in Tasks : LockTest(t)
    \/ \E t \in Tasks : LockEnqueue(t)
    \/ \E t \in Tasks : LockWait(t)
    \/ \E t \in Tasks : CancelLock(t)
    \/ \E t \in Tasks : LockResume(t)
    \/ \E t \in Tasks : LockPurge(t)
    \/ \E t \in Tasks : LockAcquire(t)
    \/ \E t \in Tasks, s \in Slots : GuardDestroy(t, s)
    \/ \E t \in Tasks, d, s \in Slots : GuardMove(t, d, s)
    \/ \E t \in Tasks, d, s \in Slots : GuardAssign(t, d, s)
    \/ \E t \in Tasks : Unlock(t)
    \/ \E t \in Tasks : UnlockReady(t)
    \/ \E t \in Tasks : UnlockCancel(t)


(***************************************************************************)
(* The authentication policy gate and the three login paths                *)
(***************************************************************************)
Options == [require_tls_for_auth : BOOLEAN, allow_cleartext_auth : BOOLEAN]

\* The error ensure_auth_allowed throws, by the start of its message.
TlsRequired == "TLS required for authentication"

\* ensure_auth_allowed, auth_policy.hpp lines 21-32: what it throws, if
\* anything, and whether it logs the warning.
EnsureAuthAllowedNoOptIn(is_tls, options) ==
    IF is_tls \/ ~options.require_tls_for_auth
    THEN [error |-> "none", warned |-> FALSE]
    ELSE [error |-> TlsRequired, warned |-> FALSE]

EnsureAuthAllowed(is_tls, options) ==
    IF is_tls \/ ~options.require_tls_for_auth
    THEN [error |-> "none", warned |-> FALSE]
    ELSE IF options.allow_cleartext_auth
         THEN [error |-> "none", warned |-> TRUE]
         ELSE [error |-> TlsRequired, warned |-> FALSE]

Unchecked == [error |-> "unchecked", warned |-> FALSE]

\* reply::is_positive_completion, smtp/client.hpp line 475
IsPositiveCompletion(status) == status \div 100 = 2

\* reply::is_positive_intermediate, smtp/client.hpp line 476
IsPositiveIntermediate(status) == status \div 100 = 3

\* The reply codes a server answers an AUTH exchange with.
AuthReplies == {235, 250, 334, 454, 535}

\* The first token of the line a POP3 server answers with.
Pop3Replies == {"+OK", "-ERR", "junk"}

\* The line an IMAP server answers with: untagged, or tagged with a status.
ImapReplies == {"untagged", "OK", "NO", "BAD", "PREAUTH", "other"}

\* A session that is not in use.
AIdle ==
    /\ a_proto = "smtp"
    /\ a_opts = [require_tls_for_auth |-> FALSE, allow_cleartext_auth |-> FALSE]
    /\ a_tls = FALSE
    /\ a_pc = "idle"
    /\ a_wire = <<>>
    /\ a_result = "none"
    /\ a_gate = Unchecked
    /\ a_tag = 0

\* A connected session, plain or TLS, with any options.
AInit ==
    /\ a_proto \in {"smtp", "pop3", "imap"}
    /\ a_opts \in Options
    /\ a_tls \in BOOLEAN
    /\ a_pc = "idle"
    /\ a_wire = <<>>
    /\ a_result = "none"
    /\ a_gate = Unchecked
    /\ a_tag = 0

AEnd(result) ==
    /\ a_pc' = "done"
    /\ a_result' = result

\* A call of ensure_auth_allowed(is_tls, options) (test_auth_policy.cpp).
PolicyCheck ==
    /\ a_gate = Unchecked
    /\ a_gate' = EnsureAuthAllowed(a_tls, a_opts)
    /\ UNCHANGED <<a_proto, a_opts, a_tls, a_pc, a_wire, a_result, a_tag>>

\* smtp::client::authenticate, lines 120-131, method plain:
\* authenticate_plain, line 280, writes AUTH PLAIN with the encoded blob.
SmtpAuthenticatePlain ==
    /\ a_proto = "smtp" /\ a_pc = "idle"
    /\ a_wire' = Append(a_wire, "AUTH PLAIN <b64>")
    /\ a_pc' = "plain_sent"
    /\ UNCHANGED <<a_proto, a_opts, a_tls, a_result, a_gate, a_tag>>

\* authenticate_plain, lines 280-285: on 334 the blob is sent again alone;
\* else the reply decides.
SmtpPlainReply(status) ==
    /\ a_proto = "smtp" /\ a_pc = "plain_sent"
    /\ IF status = 334
       THEN /\ a_wire' = Append(a_wire, "<b64>")
            /\ a_pc' = "plain_resent"
            /\ UNCHANGED a_result
       ELSE /\ AEnd(IF IsPositiveCompletion(status) THEN "ok"
                    ELSE "Authentication rejection.")
            /\ UNCHANGED a_wire
    /\ UNCHANGED <<a_proto, a_opts, a_tls, a_gate, a_tag>>

\* authenticate_plain, lines 282-285: the reply to the resent blob.
SmtpPlainFinal(status) ==
    /\ a_proto = "smtp" /\ a_pc = "plain_resent"
    /\ AEnd(IF IsPositiveCompletion(status) THEN "ok" ELSE "Authentication rejection.")
    /\ UNCHANGED <<a_proto, a_opts, a_tls, a_wire, a_gate, a_tag>>

\* smtp::client::authenticate, lines 120-131, method login:
\* authenticate_login, line 290, writes AUTH LOGIN.
SmtpAuthenticateLogin ==
    /\ a_proto = "smtp" /\ a_pc = "idle"
    /\ a_wire' = Append(a_wire, "AUTH LOGIN")
    /\ a_pc' = "login_sent"
    /\ UNCHANGED <<a_proto, a_opts, a_tls, a_result, a_gate, a_tag>>

\* authenticate_login, lines 290-299: 334 is required, then the user name.
SmtpLoginReply(status) ==
    /\ a_proto = "smtp" /\ a_pc = "login_sent"
    /\ IF status # 334
       THEN AEnd("Authentication rejection.") /\ UNCHANGED a_wire
       ELSE /\ a_wire' = Append(a_wire, "<b64 username>")
            /\ a_pc' = "user_sent"
            /\ UNCHANGED a_result
    /\ UNCHANGED <<a_proto, a_opts, a_tls, a_gate, a_tag>>

\* authenticate_login, lines 299-303: 334 is required, then the password.
SmtpUserReply(status) ==
    /\ a_proto = "smtp" /\ a_pc = "user_sent"
    /\ IF status # 334
       THEN AEnd("Username rejection.") /\ UNCHANGED a_wire
       ELSE /\ a_wire' = Append(a_wire, "<b64 password>")
            /\ a_pc' = "pass_sent"
            /\ UNCHANGED a_result
    /\ UNCHANGED <<a_proto, a_opts, a_tls, a_gate, a_tag>>

\* authenticate_login, lines 303-305.
SmtpPassReply(status) ==
    /\ a_proto = "smtp" /\ a_pc = "pass_sent"
    /\ AEnd(IF IsPositiveCompletion(status) THEN "ok" ELSE "Password rejection.")
    /\ UNCHANGED <<a_proto, a_opts, a_tls, a_wire, a_gate, a_tag>>

\* pop3_base::parse_status with read_ok_response, pop3/client.hpp lines
\* 79-87 and 269-276: the error a status line ends the command with.
Pop3Status(first, error_message) ==
    IF first # "+OK" /\ first # "-ERR" THEN "Unknown response status."
    ELSE IF first = "+OK" THEN "none" ELSE error_message

\* pop3::login, lines 162-164: USER is written.
Pop3Login ==
    /\ a_proto = "pop3" /\ a_pc = "idle"
    /\ a_wire' = Append(a_wire, "USER <username>")
    /\ a_pc' = "user_sent"
    /\ UNCHANGED <<a_proto, a_opts, a_tls, a_result, a_gate, a_tag>>

\* pop3::login, lines 165-167: the reply to USER, then PASS.
Pop3UserReply(first) ==
    /\ a_proto = "pop3" /\ a_pc = "user_sent"
    /\ IF Pop3Status(first, "Username rejection.") # "none"
       THEN AEnd(Pop3Status(first, "Username rejection.")) /\ UNCHANGED a_wire
       ELSE /\ a_wire' = Append(a_wire, "PASS <password>")
            /\ a_pc' = "pass_sent"
            /\ UNCHANGED a_result
    /\ UNCHANGED <<a_proto, a_opts, a_tls, a_gate, a_tag>>

\* pop3::login, line 168: the reply to PASS.
Pop3PassReply(first) ==
    /\ a_proto = "pop3" /\ a_pc = "pass_sent"
    /\ AEnd(IF Pop3Status(first, "Password rejection.") = "none" THEN "ok"
            ELSE Pop3Status(first, "Password rejection."))
    /\ UNCHANGED <<a_proto, a_opts, a_tls, a_wire, a_gate, a_tag>>

\* imap_client::login, mailio.hpp line 357, with send_command, lines
\* 784-790: the tag is incremented and the tagged LOGIN line is written.
ImapLogin ==
    /\ a_proto = "imap" /\ a_pc = "idle"
    /\ a_tag' = a_tag + 1
    /\ a_wire' = Append(a_wire, "<tag> LOGIN <username> <password>")
    /\ a_pc' = "login_sent"
    /\ UNCHANGED <<a_proto, a_opts, a_tls, a_result, a_gate>>

\* imap_client::command, lines 316-346, then ensure_ok, lines 533-541:
\* untagged lines are collected; the tagged line ends the command, with a
\* status other than OK, NO, BAD as an invalid response.
ImapLoginReply(line) ==
    /\ a_proto = "imap" /\ a_pc = "login_sent"
    /\ IF line = "untagged"
       THEN UNCHANGED <<a_pc, a_result>>
       ELSE AEnd(IF line = "OK" THEN "ok"
                 ELSE IF line \in {"NO", "BAD"} THEN "Login failure."
                 ELSE "Invalid response status.")
    /\ UNCHANGED <<a_proto, a_opts, a_tls, a_wire, a_gate, a_tag>>

\* What the login paths leave alone.
AFrame == UNCHANGED <<mvars, svars, rvars, evars, tvars, cvars, dvars, xvars,
    pvars, ivars, lvars>>

ANext ==
    \/ PolicyCheck /\ AFrame
    \/ SmtpAuthenticatePlain /\ AFrame
    \/ \E status \in AuthReplies : SmtpPlainReply(status) /\ AFrame
    \/ \E status \in AuthReplies : SmtpPlainFinal(status) /\ AFrame
    \/ SmtpAuthenticateLogin /\ AFrame
    \/ \E status \in AuthReplies : SmtpLoginReply(status) /\ AFrame
    \/ \E status \in AuthReplies : SmtpUserReply(status) /\ AFrame
    \/ \E status \in AuthReplies : SmtpPassReply(status) /\ AFrame
    \/ Pop3Login /\ AFrame
    \/ \E first \in Pop3Replies : Pop3UserReply(first) /\ AFrame
    \/ \E first \in Pop3Replies : Pop3PassReply(first) /\ AFrame
    \/ ImapLogin /\ AFrame
    \/ \E line \in ImapReplies : ImapLoginReply(line) /\ AFrame

(***************************************************************************)
(* SMTP submission: smtp::client::send and smtp_client::submit_impl        *)
(***************************************************************************)
\* Addresses are strings of character codes; A-Z are 65..90, a-z 97..122.
NoAddress == <<>>
AddrAx == <<97, 120>>
AddrAXUpper == <<65, 88>>
AddrBx == <<98, 120>>
AddrSender == <<115, 120>>
AddrFrom == <<102, 120>>
Addrs == {NoAddress, AddrAx, AddrAXUpper, AddrBx}

\* The longest list of addresses in a message or an envelope.
MaxAddrs == 2

SeqsUpTo(S, n) == UNION {[1..k -> S] : k \in 0..n}

\* mailio::mailboxes: addresses, then groups of members
Mailboxes(addresses, members) ==
    [addresses |-> addresses,
     groups |-> IF members = <<>> THEN <<>> ELSE <<members>>]

\* The header recipients of a message as entries in header order: To
\* addresses, To group members, Cc addresses, Cc group members, Bcc
\* addresses, Bcc group members.
Entries == [slot : 1..6, addr : Addrs]

EntryLists ==
    {e \in SeqsUpTo(Entries, MaxAddrs) :
        \A i \in 1..(Len(e) - 1) : e[i].slot <= e[i + 1].slot}

RECURSIVE Pick(_, _)
Pick(e, slot) ==
    IF e = <<>> THEN <<>>
    ELSE IF Head(e).slot = slot THEN <<Head(e).addr>> \o Pick(Tail(e), slot)
    ELSE Pick(Tail(e), slot)

MessageOf(e, sender, from) ==
    [sender |-> sender,
     from |-> from,
     to |-> Mailboxes(Pick(e, 1), Pick(e, 2)),
     cc |-> Mailboxes(Pick(e, 3), Pick(e, 4)),
     bcc |-> Mailboxes(Pick(e, 5), Pick(e, 6))]

\* smtp::client::envelope, lines 530-534, default constructed
EmptyEnvelope == [mail_from |-> NoAddress, rcpt_to |-> <<>>]

\* The calls made: every header recipient list under a fixed sender, every
\* envelope recipient list, and every way of naming the sender.
SendInputs ==
    {[msg |-> MessageOf(e, AddrSender, <<>>), env |-> EmptyEnvelope] :
        e \in EntryLists}
    \cup
    {[msg |-> MessageOf(<<[slot |-> 5, addr |-> AddrBx]>>, AddrSender, <<>>),
      env |-> [mail_from |-> NoAddress, rcpt_to |-> r]] :
        r \in SeqsUpTo(Addrs, MaxAddrs)}
    \cup
    {[msg |-> MessageOf(<<[slot |-> 1, addr |-> AddrAx]>>, sender, from),
      env |-> [mail_from |-> mf, rcpt_to |-> <<>>]] :
        sender \in {NoAddress, AddrSender},
        from \in SeqsUpTo({NoAddress, AddrFrom}, 1),
        mf \in {NoAddress, AddrSender}}

\* A reply line: three digits and a well-formed fourth character or not,
\* the code, and whether the dash continuation marker is absent.
ReplyLine(code, last) ==
    [wellformed |-> TRUE, code |-> code, last |-> last, text |-> <<>>]
Garbled == [wellformed |-> FALSE, code |-> 0, last |-> TRUE, text |-> <<>>]

\* The replies a server gives to a command.
Replies ==
    { <<ReplyLine(250, TRUE)>>,
      <<ReplyLine(250, FALSE), ReplyLine(250, TRUE)>>,
      <<ReplyLine(354, TRUE)>>,
      <<ReplyLine(550, TRUE)>>,
      <<ReplyLine(250, FALSE), ReplyLine(550, TRUE)>>,
      <<Garbled>> }

\* The status of a reply as the server meant it: the code its lines share,
\* 0 when the reply is malformed.
ServedStatus(r) ==
    IF \A k \in 1..Len(r) : r[k].wellformed /\ r[k].code = r[Len(r)].code
    THEN r[Len(r)].code ELSE 0

\* The messages of the errors thrown.
SenderMissing == "Mail sender is missing."
NoRecipientsError == "No recipients."
SenderRejection == "Mail sender rejection."
RecipientRejection == "Mail recipient rejection."
MessageRejection == "Mail message rejection."
ParsingFailure == "Parsing server failure."
OutOfRange == "std::out_of_range"

\* to_lower_ascii, smtp/client.hpp lines 422-434
ToLowerAscii(input) ==
    [i \in 1..Len(input) |->
        IF input[i] >= 65 /\ input[i] <= 90 THEN input[i] + (97 - 65) ELSE input[i]]

\* dedup, lines 405-420, without the test for an empty address
RECURSIVE DedupKeepingEmptyLoop(_, _, _)
DedupKeepingEmptyLoop(addresses, out, seen) ==
    IF addresses = <<>> THEN out
    ELSE LET addr == Head(addresses)
             key == ToLowerAscii(addr)
         IN  IF key \notin seen
             THEN DedupKeepingEmptyLoop(Tail(addresses), Append(out, addr), seen \cup {key})
             ELSE DedupKeepingEmptyLoop(Tail(addresses), out, seen)

DedupKeepingEmpty(addresses) == DedupKeepingEmptyLoop(addresses, <<>>, {})

\* dedup, lines 405-420: the loop over the addresses
RECURSIVE DedupLoop(_, _, _)
DedupLoop(addresses, out, seen) ==
    IF addresses = <<>> THEN out
    ELSE LET addr == Head(addresses)
             key == ToLowerAscii(addr)
         IN  IF addr = <<>> THEN DedupLoop(Tail(addresses), out, seen)
             ELSE IF key \notin seen
             THEN DedupLoop(Tail(addresses), Append(out, addr), seen \cup {key})
             ELSE DedupLoop(Tail(addresses), out, seen)

Dedup(addresses) == DedupLoop(addresses, <<>>, {})

\* The non-empty addresses of a list, in order.
NonEmpty(addresses) == SelectSeq(addresses, LAMBDA a : a # <<>>)

RECURSIVE Members(_)
Members(groups) ==
    IF groups = <<>> THEN <<>> ELSE Head(groups) \o Members(Tail(groups))

\* append_mailboxes, lines 388-403: what it appends to out
AppendMailboxes(boxes) ==
    NonEmpty(boxes.addresses) \o NonEmpty(Members(boxes.groups))

\* collect_recipients, lines 379-386
CollectRecipients(msg) ==
    AppendMailboxes(msg.to) \o AppendMailboxes(msg.cc) \o AppendMailboxes(msg.bcc)

\* smtp::client::send, lines 135-146: the sender of the envelope
MailFrom(msg, env) ==
    IF env.mail_from # <<>> THEN env.mail_from
    ELSE IF msg.sender # <<>> THEN msg.sender
    ELSE IF msg.from # <<>> THEN Head(msg.from)
    ELSE <<>>

\* smtp::client::send, lines 150-153: the recipients of the envelope
Recipients(msg, env) ==
    Dedup(IF env.rcpt_to # <<>> THEN env.rcpt_to ELSE CollectRecipients(msg))

\* smtp::client::read_reply, lines 222-264: lines are read until one is the
\* last, every line must parse and carry the status of the first.
RECURSIVE ReadReplyLoop(_, _, _)
ReadReplyLoop(inbox, status, lines) ==
    IF inbox = <<>>
    THEN [complete |-> FALSE, error |-> "none", status |-> status, lines |-> lines,
          rest |-> <<>>]
    ELSE LET line == Head(inbox) IN
         IF ~line.wellformed
         THEN [complete |-> TRUE, error |-> ParsingFailure, status |-> status,
               lines |-> lines, rest |-> Tail(inbox)]
         ELSE IF status # 0 /\ status # line.code
         THEN [complete |-> TRUE, error |-> ParsingFailure, status |-> status,
               lines |-> lines, rest |-> Tail(inbox)]
         ELSE IF line.last
         THEN [complete |-> TRUE, error |-> "none", status |-> line.code,
               lines |-> Append(lines, line.text), rest |-> Tail(inbox)]
         ELSE ReadReplyLoop(Tail(inbox), line.code, Append(lines, line.text))

ReadReply(inbox) == ReadReplyLoop(inbox, 0, <<>>)

\* dialog::async_receive, mailio.hpp lines 893-915, then
\* smtp_base::parse_line, lines 989-999: one line is read and parsed; the
\* caller does not look at the line's continuation marker.
ReceiveLine(inbox) ==
    IF inbox = <<>>
    THEN [complete |-> FALSE, error |-> "none", status |-> 0, rest |-> <<>>]
    ELSE IF ~Head(inbox).wellformed
    THEN [complete |-> TRUE, error |-> ParsingFailure, status |-> 0, rest |-> Tail(inbox)]
    ELSE [complete |-> TRUE, error |-> "none", status |-> Head(inbox).code,
          rest |-> Tail(inbox)]

Command(cmd, arg) == [cmd |-> cmd, arg |-> arg]

SIdle ==
    /\ s_variant = "send"
    /\ s_msg = MessageOf(<<>>, NoAddress, <<>>)
    /\ s_env = EmptyEnvelope
    /\ s_pc = "idle"
    /\ s_rcpts = <<>>
    /\ s_i = 0
    /\ s_wire = <<>>
    /\ s_inbox = <<>>
    /\ s_served = <<>>
    /\ s_result = "none"

\* A connected session about to submit one message; submit_impl takes no
\* envelope.
SInit ==
    /\ s_variant \in {"send", "submit"}
    /\ \E call \in SendInputs :
        /\ s_variant = "submit" => call.env = EmptyEnvelope
        /\ s_msg = call.msg
        /\ s_env = call.env
    /\ s_pc = "idle"
    /\ s_rcpts = <<>>
    /\ s_i = 0
    /\ s_wire = <<>>
    /\ s_inbox = <<>>
    /\ s_served = <<>>
    /\ s_result = "none"

SThrow(message) ==
    /\ s_pc' = "done"
    /\ s_result' = message

SWrite(command, awaiting) ==
    /\ s_wire' = Append(s_wire, command)
    /\ s_pc' = awaiting
    /\ UNCHANGED s_result

\* The server answers the command it has not answered yet.
ServerReply(r) ==
    /\ s_pc \notin {"idle", "done"}
    /\ Len(s_served) < Len(s_wire)
    /\ s_inbox' = s_inbox \o r
    /\ s_served' = Append(s_served, ServedStatus(r))
    /\ UNCHANGED <<s_variant, s_msg, s_env, s_pc, s_rcpts, s_i, s_wire, s_result>>

\* smtp::client::send, lines 135-158: the sender and the recipients are
\* worked out and checked, then MAIL FROM is written.
SendStart ==
    /\ s_variant = "send" /\ s_pc = "idle"
    /\ LET mail_from == MailFrom(s_msg, s_env)
           recipients == Recipients(s_msg, s_env)
       IN  IF mail_from = <<>>
           THEN SThrow(SenderMissing) /\ UNCHANGED <<s_rcpts, s_wire>>
           ELSE IF recipients = <<>>
           THEN SThrow(NoRecipientsError) /\ UNCHANGED <<s_rcpts, s_wire>>
           ELSE /\ s_rcpts' = recipients
                /\ SWrite(Command("MAIL FROM", mail_from), "mail")
    /\ UNCHANGED <<s_variant, s_msg, s_env, s_i, s_inbox, s_served>>

\* smtp::client::send, lines 158-164: the reply to MAIL FROM, then the first
\* RCPT TO.
SendAfterMail ==
    /\ s_variant = "send" /\ s_pc = "mail"
    /\ LET rep == ReadReply(s_inbox) IN
        /\ rep.complete
        /\ s_inbox' = rep.rest
        /\ IF rep.error # "none"
           THEN SThrow(rep.error) /\ UNCHANGED <<s_wire, s_i>>
           ELSE IF ~IsPositiveCompletion(rep.status)
           THEN SThrow(SenderRejection) /\ UNCHANGED <<s_wire, s_i>>
           ELSE /\ SWrite(Command("RCPT TO", s_rcpts[1]), "rcpt")
                /\ s_i' = 1
    /\ UNCHANGED <<s_variant, s_msg, s_env, s_rcpts, s_served>>

\* smtp::client::send, lines 162-169: the reply to a RCPT TO, then the next
\* RCPT TO or, after the last, DATA.
SendAfterRcpt ==
    /\ s_variant = "send" /\ s_pc = "rcpt"
    /\ LET rep == ReadReply(s_inbox) IN
        /\ rep.complete
        /\ s_inbox' = rep.rest
        /\ IF rep.error # "none"
           THEN SThrow(rep.error) /\ UNCHANGED <<s_wire, s_i>>
           ELSE IF ~IsPositiveCompletion(rep.status)
           THEN SThrow(RecipientRejection) /\ UNCHANGED <<s_wire, s_i>>
           ELSE IF s_i < Len(s_rcpts)
           THEN /\ SWrite(Command("RCPT TO", s_rcpts[s_i + 1]), "rcpt")
                /\ s_i' = s_i + 1
           ELSE /\ SWrite(Command("DATA", <<>>), "data")
                /\ UNCHANGED s_i
    /\ UNCHANGED <<s_variant, s_msg, s_env, s_rcpts, s_served>>

\* smtp::client::send, lines 169-180: the reply to DATA, then the formatted
\* message with its terminator.
SendAfterData ==
    /\ s_variant = "send" /\ s_pc = "data"
    /\ LET rep == ReadReply(s_inbox) IN
        /\ rep.complete
        /\ s_inbox' = rep.rest
        /\ IF rep.error # "none"
           THEN SThrow(rep.error) /\ UNCHANGED s_wire
           ELSE IF ~IsPositiveIntermediate(rep.status)
           THEN SThrow(MessageRejection) /\ UNCHANGED s_wire
           ELSE SWrite(Command("BODY", <<>>), "body")
    /\ UNCHANGED <<s_variant, s_msg, s_env, s_rcpts, s_i, s_served>>

\* smtp::client::send, lines 182-186: the reply to the message.
SendAfterBody ==
    /\ s_variant = "send" /\ s_pc = "body"
    /\ LET rep == ReadReply(s_inbox) IN
        /\ rep.complete
        /\ s_inbox' = rep.rest
        /\ SThrow(IF rep.error # "none" THEN rep.error
                  ELSE IF ~IsPositiveCompletion(rep.status) THEN MessageRejection
                  ELSE "ok")
    /\ UNCHANGED <<s_variant, s_msg, s_env, s_rcpts, s_i, s_wire, s_served>>

\* smtp_client::submit_impl, mailio.hpp lines 1198-1201: MAIL FROM is
\* written with the Sender or else the first From address; at(0) throws on
\* an empty From list.  The recipients are the To addresses, line 1208.
SubmitStart ==
    /\ s_variant = "submit" /\ s_pc = "idle"
    /\ IF s_msg.sender # <<>>
       THEN /\ SWrite(Command("MAIL FROM", s_msg.sender), "mail")
            /\ s_rcpts' = s_msg.to.addresses
       ELSE IF s_msg.from = <<>>
       THEN SThrow(OutOfRange) /\ UNCHANGED <<s_rcpts, s_wire>>
       ELSE /\ SWrite(Command("MAIL FROM", Head(s_msg.from)), "mail")
            /\ s_rcpts' = s_msg.to.addresses
    /\ UNCHANGED <<s_variant, s_msg, s_env, s_i, s_inbox, s_served>>

\* submit_impl, lines 1203-1210 and 1218: the line after MAIL FROM, then the
\* first RCPT TO or, without To addresses, DATA.
SubmitAfterMail ==
    /\ s_variant = "submit" /\ s_pc = "mail"
    /\ LET rep == ReceiveLine(s_inbox) IN
        /\ rep.complete
        /\ s_inbox' = rep.rest
        /\ IF rep.error # "none"
           THEN SThrow(rep.error) /\ UNCHANGED <<s_wire, s_i>>
           ELSE IF ~IsPositiveCompletion(rep.status)
           THEN SThrow(SenderRejection) /\ UNCHANGED <<s_wire, s_i>>
           ELSE IF s_rcpts # <<>>
           THEN /\ SWrite(Command("RCPT TO", s_rcpts[1]), "rcpt")
                /\ s_i' = 1
           ELSE /\ SWrite(Command("DATA", <<>>), "data")
                /\ UNCHANGED s_i
    /\ UNCHANGED <<s_variant, s_msg, s_env, s_rcpts, s_served>>

\* submit_impl, lines 1208-1218: the line after a RCPT TO, then the next
\* RCPT TO or DATA.
SubmitAfterRcpt ==
    /\ s_variant = "submit" /\ s_pc = "rcpt"
    /\ LET rep == ReceiveLine(s_inbox) IN
        /\ rep.complete
        /\ s_inbox' = rep.rest
        /\ IF rep.error # "none"
           THEN SThrow(rep.error) /\ UNCHANGED <<s_wire, s_i>>
           ELSE IF ~IsPositiveCompletion(rep.status)
           THEN SThrow(RecipientRejection) /\ UNCHANGED <<s_wire, s_i>>
           ELSE IF s_i < Len(s_rcpts)
           THEN /\ SWrite(Command("RCPT TO", s_rcpts[s_i + 1]), "rcpt")
                /\ s_i' = s_i + 1
           ELSE /\ SWrite(Command("DATA", <<>>), "data")
                /\ UNCHANGED s_i
    /\ UNCHANGED <<s_variant, s_msg, s_env, s_rcpts, s_served>>

\* submit_impl, lines 1219-1226: the line after DATA, then the message.
SubmitAfterData ==
    /\ s_variant = "submit" /\ s_pc = "data"
    /\ LET rep == ReceiveLine(s_inbox) IN
        /\ rep.complete
        /\ s_inbox' = rep.rest
        /\ IF rep.error # "none"
           THEN SThrow(rep.error) /\ UNCHANGED s_wire
           ELSE IF ~IsPositiveIntermediate(rep.status)
           THEN SThrow(MessageRejection) /\ UNCHANGED s_wire
           ELSE SWrite(Command("BODY", <<>>), "body")
    /\ UNCHANGED <<s_variant, s_msg, s_env, s_rcpts, s_i, s_served>>

\* submit_impl, lines 1228-1233: the line after the message.
SubmitAfterBody ==
    /\ s_variant = "submit" /\ s_pc = "body"
    /\ LET rep == ReceiveLine(s_inbox) IN
        /\ rep.complete
        /\ s_inbox' = rep.rest
        /\ SThrow(IF rep.error # "none" THEN rep.error
                  ELSE IF ~IsPositiveCompletion(rep.status) THEN MessageRejection
                  ELSE "ok")
    /\ UNCHANGED <<s_variant, s_msg, s_env, s_rcpts, s_i, s_wire, s_served>>

\* What a submission leaves alone.
SFrame == UNCHANGED <<mvars, avars, rvars, evars, tvars, cvars, dvars, xvars,
    pvars, ivars, lvars>>

SNext ==
    \/ \E r \in Replies : ServerReply(r) /\ SFrame
    \/ SendStart /\ SFrame
    \/ SendAfterMail /\ SFrame
    \/ SendAfterRcpt /\ SFrame
    \/ SendAfterData /\ SFrame
    \/ SendAfterBody /\ SFrame
    \/ SubmitStart /\ SFrame
    \/ SubmitAfterMail /\ SFrame
    \/ SubmitAfterRcpt /\ SFrame
    \/ SubmitAfterData /\ SFrame
    \/ SubmitAfterBody /\ SFrame

(***************************************************************************)
(* The SMTP reply reader: smtp::client::read_reply on the lines received   *)
(***************************************************************************)
\* Lines are strings of character codes: '0'..'9' are 48..57, ' ' is 32 and
\* '-' is 45.
Line250 == <<50, 53, 48, 32, 111, 107>>                  \* "250 ok"
Line250Dash == <<50, 53, 48, 45, 111, 107>>              \* "250-ok"
Line250Bare == <<50, 53, 48>>                            \* "250"
Line550 == <<53, 53, 48, 32, 110, 111>>                  \* "550 no"
Line000Dash == <<48, 48, 48, 45, 97>>                    \* "000-a"
LineShort == <<50, 53>>                                  \* "25"
LineNoDigit == <<50, 120, 48, 32, 97>>                   \* "2x0 a"
LineBadMark == <<50, 53, 48, 120, 97>>                   \* "250xa"
\* "220 smtp.example.com ESMTP"
Line220 ==
    <<50, 50, 48, 32, 115, 109, 116, 112, 46, 101, 120, 97, 109, 112, 108, 101,
      46, 99, 111, 109, 32, 69, 83, 77, 84, 80>>

RawLines ==
    {Line250, Line250Dash, Line250Bare, Line550, Line000Dash, LineShort,
     LineNoDigit, LineBadMark, Line220}

\* The lines a server sends in one run.
MaxLines == 3

\* std::isdigit
IsDigit(c) == c >= 48 /\ c <= 57

\* read_reply's parse of a line without the test for the dash marker
ParseLineNoDash(line) ==
    IF Len(line) < 3 THEN Garbled
    ELSE IF ~IsDigit(line[1]) \/ ~IsDigit(line[2]) \/ ~IsDigit(line[3]) THEN Garbled
    ELSE [wellformed |-> TRUE,
          code |-> (line[1] - 48) * 100 + (line[2] - 48) * 10 + (line[3] - 48),
          last |-> TRUE,
          text |-> IF Len(line) > 4 THEN SubSeq(line, 5, Len(line)) ELSE <<>>]

\* read_reply, lines 227-247: one line is parsed into its code, its
\* continuation marker and its text.
ParseLine(line) ==
    IF Len(line) < 3 THEN Garbled
    ELSE IF ~IsDigit(line[1]) \/ ~IsDigit(line[2]) \/ ~IsDigit(line[3]) THEN Garbled
    ELSE IF Len(line) >= 4 /\ line[4] # 45 /\ line[4] # 32 THEN Garbled
    ELSE [wellformed |-> TRUE,
          code |-> (line[1] - 48) * 100 + (line[2] - 48) * 10 + (line[3] - 48),
          last |-> ~(Len(line) >= 4 /\ line[4] = 45),
          text |-> IF Len(line) > 4 THEN SubSeq(line, 5, Len(line)) ELSE <<>>]

ParseLines(lines) == [k \in 1..Len(lines) |-> ParseLine(lines[k])]

RInit ==
    /\ r_input = <<>>
    /\ r_inbox = <<>>
    /\ r_calls = <<>>

\* The server sends one more line.
LineArrives(line) ==
    /\ Len(r_input) < MaxLines
    /\ r_input' = Append(r_input, line)
    /\ r_inbox' = Append(r_inbox, line)
    /\ UNCHANGED r_calls

\* One call of read_reply, lines 222-264, once the lines it reads are there:
\* it returns the reply or throws, and the lines it has read are gone.
ReadReplyCall ==
    LET rep == ReadReply(ParseLines(r_inbox))
        taken == Len(r_inbox) - Len(rep.rest)
    IN  /\ rep.complete
        /\ r_inbox' = SubSeq(r_inbox, taken + 1, Len(r_inbox))
        /\ r_calls' = Append(r_calls,
                [taken |-> SubSeq(r_inbox, 1, taken),
                 error |-> rep.error,
                 status |-> rep.status,
                 lines |-> rep.lines])
        /\ UNCHANGED r_input

\* What the reply reader leaves alone.
RFrame == UNCHANGED <<mvars, avars, svars, evars, tvars, cvars, dvars, xvars,
    pvars, ivars, lvars>>

RNext ==
    \/ \E line \in RawLines : LineArrives(line) /\ RFrame
    \/ ReadReplyCall /\ RFrame

(***************************************************************************)
(* The EHLO exchange: smtp::client::ehlo, parse_capabilities and           *)
(* smtp_client::ehlo_impl                                                  *)
(***************************************************************************)
\* The texts of reply lines; 'A'..'Z' are 65..90, 'a'..'z' 97..122.
TextHost == <<109, 120>>                                 \* "mx"
TextHello == <<109, 120, 32, 104, 105>>                  \* "mx hi"
TextSize == <<83, 73, 90, 69, 32, 57>>                   \* "SIZE 9"
TextSizeLower == <<115, 105, 122, 101, 32, 55>>          \* "size 7"
TextAuth == <<65, 85, 84, 72, 32, 80, 32, 32, 76, 32>>   \* "AUTH P  L "
TextTls == <<83, 84, 65, 82, 84, 84, 76, 83>>            \* "STARTTLS"
TextEmpty == <<>>
CapTexts == {TextHost, TextHello, TextSize, TextSizeLower, TextAuth, TextTls, TextEmpty}

\* The longest EHLO reply, in lines.
MaxCapLines == 3

\* The replies read_reply returns to ehlo, and its failure.
EhloReplies ==
    {[error |-> "none", status |-> 250, lines |-> l] :
        l \in SeqsUpTo(CapTexts, MaxCapLines) \ {<<>>}}
    \cup {[error |-> "none", status |-> 500, lines |-> <<TextEmpty>>],
          [error |-> "none", status |-> 550, lines |-> <<TextHost>>],
          [error |-> ParsingFailure, status |-> 0, lines |-> <<>>]}

\* The replies HELO is answered with.
HeloReplies == {r \in EhloReplies : Len(r.lines) <= 1}

InitialRejection == "Initial message rejection."

\* to_upper_ascii, smtp/client.hpp lines 436-448
ToUpperAscii(input) ==
    [i \in 1..Len(input) |->
        IF input[i] >= 97 /\ input[i] <= 122 THEN input[i] - (97 - 65) ELSE input[i]]

\* std::string::find(' '): the position of the first space, 0 for npos
RECURSIVE FindSpaceFrom(_, _)
FindSpaceFrom(line, i) ==
    IF i > Len(line) THEN 0
    ELSE IF line[i] = 32 THEN i
    ELSE FindSpaceFrom(line, i + 1)

FindSpace(line) == FindSpaceFrom(line, 1)

\* parse_capabilities, lines 354-370: the parameters in the rest of a line
RECURSIVE ParamsLoop(_, _, _)
ParamsLoop(rest, current, params) ==
    IF rest = <<>>
    THEN IF current # <<>> THEN Append(params, current) ELSE params
    ELSE IF Head(rest) = 32
    THEN IF current # <<>>
         THEN ParamsLoop(Tail(rest), <<>>, Append(params, current))
         ELSE ParamsLoop(Tail(rest), current, params)
    ELSE ParamsLoop(Tail(rest), Append(current, Head(rest)), params)

\* parse_capabilities, lines 348-356: the keyword and the parameters of a line
KeyOf(line) ==
    ToUpperAscii(IF FindSpace(line) = 0 THEN line ELSE SubSeq(line, 1, FindSpace(line) - 1))

ParamsOf(line) ==
    IF FindSpace(line) # 0 /\ FindSpace(line) < Len(line)
    THEN ParamsLoop(SubSeq(line, FindSpace(line) + 1, Len(line)), <<>>, <<>>)
    ELSE <<>>

\* entries[key] set to the parameters instead of getting them appended
SlotOverwrite(entries, key, params) ==
    [k \in DOMAIN entries \cup {key} |-> IF k = key THEN params ELSE entries[k]]

\* parse_capabilities, lines 374-375: entries[key] gets the parameters appended
Slot(entries, key, params) ==
    [k \in DOMAIN entries \cup {key} |->
        IF k = key
        THEN (IF key \in DOMAIN entries THEN entries[key] ELSE <<>>) \o params
        ELSE entries[k]]

\* std::map<std::string, std::vector<std::string>> without entries
NoEntries == [k \in {} |-> <<>>]

\* parse_capabilities, lines 334-339: the index the loop starts at
StartOf(lines) ==
    IF Len(lines) > 1 /\ FindSpace(lines[1]) = 0 THEN 2 ELSE 1

\* parse_capabilities, lines 341-376: the loop over the lines from i on
RECURSIVE CapsLoop(_, _, _)
CapsLoop(lines, i, entries) ==
    IF i > Len(lines) THEN entries
    ELSE IF lines[i] = <<>> THEN CapsLoop(lines, i + 1, entries)
    ELSE CapsLoop(lines, i + 1, Slot(entries, KeyOf(lines[i]), ParamsOf(lines[i])))

\* parse_capabilities, lines 328-377
ParseCapabilities(lines) ==
    IF lines = <<>> THEN NoEntries
    ELSE CapsLoop(lines, StartOf(lines), NoEntries)

EIdle ==
    /\ e_variant = "client"
    /\ e_pc = "idle"
    /\ e_wire = <<>>
    /\ e_replies = <<>>
    /\ e_caps = NoEntries
    /\ e_result = "none"

\* A session after the greeting, of either client.
EInit ==
    /\ e_variant \in {"client", "impl"}
    /\ e_pc = "idle"
    /\ e_wire = <<>>
    /\ e_replies = <<>>
    /\ e_caps = NoEntries
    /\ e_result = "none"

\* smtp::client::ehlo, lines 87-88: EHLO is written.
EhloStart ==
    /\ e_variant = "client" /\ e_pc = "idle"
    /\ e_wire' = <<"EHLO">>
    /\ e_replies' = <<>>
    /\ e_pc' = "ehlo"
    /\ e_result' = "none"
    /\ UNCHANGED <<e_variant, e_caps>>

\* ehlo, lines 88-99: the reply to EHLO; a refusal makes it write HELO, an
\* acceptance goes to parse_capabilities.
EhloReply(rep) ==
    /\ e_variant = "client" /\ e_pc = "ehlo"
    /\ e_replies' = Append(e_replies, rep)
    /\ IF rep.error # "none"
       THEN /\ e_pc' = "idle"
            /\ e_result' = rep.error
            /\ UNCHANGED <<e_wire, e_caps>>
       ELSE IF ~IsPositiveCompletion(rep.status)
       THEN /\ e_wire' = Append(e_wire, "HELO")
            /\ e_pc' = "helo"
            /\ UNCHANGED <<e_caps, e_result>>
       ELSE /\ e_caps' = ParseCapabilities(rep.lines)
            /\ e_pc' = "idle"
            /\ e_result' = "ok"
            /\ UNCHANGED e_wire
    /\ UNCHANGED e_variant

\* ehlo, lines 91-95: the reply to HELO; a refusal throws at once, an
\* acceptance clears the capabilities.
HeloReply(rep) ==
    /\ e_variant = "client" /\ e_pc = "helo"
    /\ e_replies' = Append(e_replies, rep)
    /\ e_pc' = "idle"
    /\ IF rep.error # "none"
       THEN e_result' = rep.error /\ UNCHANGED e_caps
       ELSE IF ~IsPositiveCompletion(rep.status)
       THEN e_result' = InitialRejection /\ UNCHANGED e_caps
       ELSE e_result' = "ok" /\ e_caps' = NoEntries
    /\ UNCHANGED <<e_variant, e_wire>>

\* smtp_client::ehlo_impl, mailio.hpp line 1143: EHLO is written.
ImplEhloStart ==
    /\ e_variant = "impl" /\ e_pc = "idle"
    /\ e_wire' = <<"EHLO">>
    /\ e_replies' = <<>>
    /\ e_pc' = "ehlo"
    /\ e_result' = "none"
    /\ UNCHANGED <<e_variant, e_caps>>

\* ehlo_impl, lines 1144-1152: the lines of the reply are read up to the
\* last; a refusal makes it write HELO.
ImplEhloReply(rep) ==
    /\ e_variant = "impl" /\ e_pc = "ehlo"
    /\ e_replies' = Append(e_replies, rep)
    /\ IF rep.error # "none"
       THEN e_pc' = "idle" /\ e_result' = rep.error /\ UNCHANGED e_wire
       ELSE IF ~IsPositiveCompletion(rep.status)
       THEN /\ e_wire' = Append(e_wire, "HELO")
            /\ e_pc' = "helo"
            /\ UNCHANGED e_result
       ELSE e_pc' = "idle" /\ e_result' = "ok" /\ UNCHANGED e_wire
    /\ UNCHANGED <<e_variant, e_caps>>

\* ehlo_impl, lines 1153-1163: the reply to HELO.
ImplHeloReply(rep) ==
    /\ e_variant = "impl" /\ e_pc = "helo"
    /\ e_replies' = Append(e_replies, rep)
    /\ e_pc' = "idle"
    /\ e_result' = IF rep.error # "none" THEN rep.error
                   ELSE IF ~IsPositiveCompletion(rep.status) THEN InitialRejection
                   ELSE "ok"
    /\ UNCHANGED <<e_variant, e_wire, e_caps>>

\* What the EHLO exchange leaves alone.
EFrame == UNCHANGED <<mvars, avars, svars, rvars, tvars, cvars, dvars, xvars,
    pvars, ivars, lvars>>

ENext ==
    \/ EhloStart /\ EFrame
    \/ \E rep \in EhloReplies : EhloReply(rep) /\ EFrame
    \/ \E rep \in HeloReplies : HeloReply(rep) /\ EFrame
    \/ ImplEhloStart /\ EFrame
    \/ \E rep \in EhloReplies : ImplEhloReply(rep) /\ EFrame
    \/ \E rep \in HeloReplies : ImplHeloReply(rep) /\ EFrame

(***************************************************************************)
(* TLS upgrade of a session: upgradable_stream, smtp::client::start_tls,   *)
(* pop3::start_tls and connect.                                            *)
(*                                                                         *)
(* A stream object is a record: variant is the alternative held by         *)
(* upgradable_stream::stream_ ("tcp" for tcp::socket, "ssl" for            *)
(* ssl_stream), socket is the state of the underlying descriptor ("closed" *)
(* before the connection, "open", "moved_from" once std::move took it),    *)
(* handshaken records that async_handshake completed on it and sni is the  *)
(* name given to SSL_set_tlsext_host_name ("" when none was set).          *)
(* The caller is taken to connect a client object once.                    *)
(***************************************************************************)
DEFAULT_MAX_LINE_LENGTH == 8192

LineLengths == {DEFAULT_MAX_LINE_LENGTH, 512}

Timeouts == {"nullopt", "30s"}

TlsModes == {"none", "starttls", "implicit"}

Hosts == {"mx.example.com"}

SniNames == {"", "tls.example.com"}

TlsClients == {"smtp", "pop3"}

NotEstablished == "Connection is not established."

StartTlsFailure == "STARTTLS failure."

ConnectionRejection == "Connection rejection."

Pop3ConnectionFailure == "Connection to server failure."

HandshakeFailure == "handshake failure"

IoFailure == "i/o failure"

\* upgradable_stream(executor): a tcp::socket that is not connected yet.
NewStream ==
    [variant |-> "tcp", socket |-> "closed", handshaken |-> FALSE, sni |-> ""]

\* No stream object (the local of a call that is not running).
NoStream ==
    [variant |-> "none", socket |-> "none", handshaken |-> FALSE, sni |-> ""]

\* The stream after async_connect completed on its lowest layer.
Connected(stream) == [stream EXCEPT !.socket = "open"]

\* The object a stream was moved out of: it keeps its alternative and
\* holds a socket without a descriptor.
MovedFrom(stream) == [stream EXCEPT !.socket = "moved_from"]

\* upgradable_stream::is_tls
IsTls(stream) == stream.variant = "ssl"

\* A variant of the upgrade that keeps the tcp::socket alternative.
StreamBeginTlsKeepsTcp(stream, sni) == stream

\* upgradable_stream::start_tls up to the co_await of the handshake: a
\* stream that is TLS already is returned as it is; otherwise stream_ is
\* switched to ssl_stream and the SNI name is set when it is not empty.
StreamBeginTls(stream, sni) ==
    IF IsTls(stream)
    THEN stream
    ELSE [variant |-> "ssl", socket |-> stream.socket,
          handshaken |-> FALSE, sni |-> sni]

\* The stream after async_handshake completed without error.
HandshakeDone(stream) == [stream EXCEPT !.handshaken = TRUE]

\* Reads and writes go to the alternative held: they can succeed on an open
\* tcp::socket and on an ssl_stream whose handshake completed.
Usable(stream) ==
    /\ stream.socket = "open"
    /\ (IsTls(stream) => stream.handshaken)

\* Bytes exchanged on the stream are protected by TLS.
Secured(stream) == IsTls(stream) /\ stream.handshaken

\* dialog(stream, max_line_length, timeout); read_buffer_ starts empty.
\* The buffer is "plaintext" while it holds bytes that a read took from
\* the socket before any handshake and that no read_line has returned.
Dialog(stream, max_len, timeout) ==
    [has_value |-> TRUE, stream |-> stream,
     max_line_length |-> max_len, timeout |-> timeout,
     read_buffer |-> "empty"]

\* async_read_until appends whatever the socket delivers: the bytes after
\* the line asked for stay in read_buffer_.
Buffered(dlg, extra) ==
    IF extra /\ ~Secured(dlg.stream)
    THEN [dlg EXCEPT !.read_buffer = "plaintext"]
    ELSE dlg

\* std::optional<dialog_type> without a value.
NoDialog ==
    [has_value |-> FALSE, stream |-> NoStream,
     max_line_length |-> DEFAULT_MAX_LINE_LENGTH, timeout |-> "nullopt",
     read_buffer |-> "empty"]

\* if (sni.empty()) sni = remote_host_;
EffectiveSni(sni, host) == IF sni = "" THEN host ELSE sni

\* A variant of connect in which no mode starts TLS.
ModeNeverStartsTls(mode) == FALSE

\* connect upgrades the stream itself for tls_mode::implicit only.
ModeStartsTls(mode) == mode = "implicit"

\* The call record: the operation, the mode and SNI given to the connect
\* call that opened the session, the SNI given to start_tls, and the host
\* and dialog settings start_tls found when it was called.
NoCall ==
    [op |-> "none", mode |-> "none", connect_sni |-> "", sni |-> "",
     host |-> "", max_line_length |-> DEFAULT_MAX_LINE_LENGTH, timeout |-> "nullopt"]

TIdle ==
    /\ t_client = "smtp"
    /\ t_pc = "closed"
    /\ t_call = NoCall
    /\ t_remote_host = ""
    /\ t_dialog = NoDialog
    /\ t_local = NoStream
    /\ t_io = {}
    /\ t_result = "none"

\* smtp::client(executor) has no dialog; pop3(executor) owns a dialog over
\* a stream that is not connected.
TInit ==
    /\ t_client \in TlsClients
    /\ t_pc = "closed"
    /\ t_call = NoCall
    /\ t_remote_host = ""
    /\ t_dialog = IF t_client = "smtp"
                  THEN NoDialog
                  ELSE Dialog(NewStream, DEFAULT_MAX_LINE_LENGTH, "nullopt")
    /\ t_local = NoStream
    /\ t_io = {}
    /\ t_result = "none"

\* smtp::client::connect(host, service) and pop3::connect(host, port): the
\* host is remembered and the TCP connection opened; the SMTP client builds
\* its dialog with the default settings.
Connect(host) ==
    /\ t_pc = "closed"
    /\ t_call.op = "none"
    /\ t_remote_host' = host
    /\ t_dialog' = IF t_client = "smtp"
                   THEN Dialog(Connected(NewStream),
                               DEFAULT_MAX_LINE_LENGTH, "nullopt")
                   ELSE [t_dialog EXCEPT !.stream = Connected(@)]
    /\ t_call' = [NoCall EXCEPT !.op = "connect", !.host = host]
    /\ t_pc' = "idle"
    /\ t_result' = "ok"
    /\ UNCHANGED <<t_client, t_local, t_io>>

\* connect(host, port, tls_mode, context, sni) of a client built with
\* options: the TCP connection is opened, the dialog gets the options' line
\* length and timeout, and for tls_mode::implicit the stream is upgraded
\* with the given SNI before connect returns.
ConnectMode(host, mode, sni, max_len, timeout) ==
    /\ t_pc = "closed"
    /\ t_call.op = "none"
    /\ t_remote_host' = host
    /\ t_call' = [op |-> "connect", mode |-> mode, connect_sni |-> sni,
                  sni |-> "", host |-> host, max_line_length |-> max_len,
                  timeout |-> timeout]
    /\ IF ModeStartsTls(mode)
       THEN /\ t_dialog' = Dialog(StreamBeginTls(Connected(NewStream),
                                                 EffectiveSni(sni, host)),
                                  max_len, timeout)
            /\ t_pc' = "handshake"
            /\ t_result' = "none"
       ELSE /\ t_dialog' = Dialog(Connected(NewStream), max_len, timeout)
            /\ t_pc' = "idle"
            /\ t_result' = "ok"
    /\ UNCHANGED <<t_client, t_local, t_io>>

\* read_greeting: one reply (SMTP) or one status line (POP3) is read from
\* the dialog; a greeting other than 220 / +OK is a rejection.
ReadGreeting(accepted) ==
    /\ t_pc = "idle"
    /\ IF ~t_dialog.has_value
       THEN /\ t_result' = NotEstablished
            /\ UNCHANGED t_io
       ELSE IF ~Usable(t_dialog.stream)
       THEN /\ t_result' = IoFailure
            /\ UNCHANGED t_io
       ELSE /\ t_io' = t_io \cup
                {[what |-> "greeting", tls |-> Secured(t_dialog.stream)]}
            /\ t_result' = IF accepted THEN "ok"
                           ELSE IF t_client = "smtp"
                                THEN ConnectionRejection
                                ELSE Pop3ConnectionFailure
    /\ t_call' = [t_call EXCEPT !.op = "read_greeting"]
    /\ UNCHANGED <<t_client, t_pc, t_remote_host, t_dialog, t_local>>

\* Any later command: a line is written to the dialog and its reply read;
\* read_line serves what read_buffer_ holds before it reads the socket.
TlsCommand ==
    /\ t_pc = "idle"
    /\ IF ~t_dialog.has_value
       THEN /\ t_result' = NotEstablished
            /\ UNCHANGED <<t_io, t_dialog>>
       ELSE IF ~Usable(t_dialog.stream)
       THEN /\ t_result' = IoFailure
            /\ UNCHANGED <<t_io, t_dialog>>
       ELSE /\ t_io' = t_io \cup
                {[what |-> "command", tls |-> Secured(t_dialog.stream)]}
            /\ t_dialog' = [t_dialog EXCEPT !.read_buffer = "empty"]
            /\ t_result' = "ok"
    /\ t_call' = [t_call EXCEPT !.op = "command"]
    /\ UNCHANGED <<t_client, t_pc, t_remote_host, t_local>>

\* start_tls(context, sni), first half: STARTTLS (SMTP) or STLS (POP3) is
\* written to the dialog.
StartTls(sni) ==
    /\ t_pc = "idle"
    /\ t_call' = [t_call EXCEPT !.op = "start_tls", !.sni = sni,
                                !.host = t_remote_host,
                                !.max_line_length = t_dialog.max_line_length,
                                !.timeout = t_dialog.timeout]
    /\ IF ~t_dialog.has_value
       THEN /\ t_result' = NotEstablished
            /\ UNCHANGED <<t_io, t_pc>>
       ELSE IF ~Usable(t_dialog.stream)
       THEN /\ t_result' = IoFailure
            /\ UNCHANGED <<t_io, t_pc>>
       ELSE /\ t_io' = t_io \cup
                {[what |-> "starttls", tls |-> Secured(t_dialog.stream)]}
            /\ t_pc' = "reply"
            /\ t_result' = "none"
    /\ UNCHANGED <<t_client, t_remote_host, t_dialog, t_local>>

\* smtp::client::start_tls after the reply to STARTTLS: a status other than
\* 220 throws; otherwise the dialog's settings are read, the stream is
\* moved into a local and upgradable_stream::start_tls runs on the local.
\* A stream that is TLS already returns at once and the dialog is replaced.
SmtpStartTlsReply(accepted, extra) ==
    /\ t_client = "smtp"
    /\ t_pc = "reply"
    /\ IF ~accepted
       THEN /\ t_result' = StartTlsFailure
            /\ t_pc' = "idle"
            /\ t_dialog' = Buffered(t_dialog, extra)
            /\ UNCHANGED t_local
       ELSE IF IsTls(t_dialog.stream)
       THEN /\ t_dialog' = Dialog(
                    StreamBeginTls(t_dialog.stream,
                                   EffectiveSni(t_call.sni, t_remote_host)),
                    t_dialog.max_line_length, t_dialog.timeout)
            /\ t_local' = NoStream
            /\ t_result' = "ok"
            /\ t_pc' = "idle"
       ELSE /\ t_local' = StreamBeginTls(t_dialog.stream,
                              EffectiveSni(t_call.sni, t_remote_host))
            /\ t_dialog' = [Buffered(t_dialog, extra) EXCEPT
                               !.stream = MovedFrom(@)]
            /\ t_result' = "none"
            /\ t_pc' = "handshake"
    /\ UNCHANGED <<t_client, t_call, t_remote_host, t_io>>

\* pop3::start_tls after the status line: a status other than +OK throws;
\* otherwise upgradable_stream::start_tls runs on the dialog's own stream.
Pop3StartTlsReply(accepted, extra) ==
    /\ t_client = "pop3"
    /\ t_pc = "reply"
    /\ IF ~accepted
       THEN /\ t_result' = StartTlsFailure
            /\ t_pc' = "idle"
            /\ t_dialog' = Buffered(t_dialog, extra)
       ELSE IF IsTls(t_dialog.stream)
       THEN /\ t_result' = "ok"
            /\ t_pc' = "idle"
            /\ t_dialog' = Buffered(t_dialog, extra)
       ELSE /\ t_dialog' = [Buffered(t_dialog, extra) EXCEPT !.stream =
                    StreamBeginTls(@, EffectiveSni(t_call.sni,
                                                   t_remote_host))]
            /\ t_result' = "none"
            /\ t_pc' = "handshake"
    /\ UNCHANGED <<t_client, t_call, t_remote_host, t_local, t_io>>

\* async_handshake completes.  In smtp::client::start_tls the stream is the
\* local: on success the dialog is replaced by one over the upgraded
\* stream with the line length and timeout read before; on failure the
\* exception destroys the local and dialog_ keeps the moved-from stream.
\* Elsewhere the stream is the dialog's own and stays in the ssl_stream
\* alternative whether or not the handshake succeeded.
Handshake(ok) ==
    /\ t_pc = "handshake"
    /\ t_pc' = "idle"
    /\ t_result' = IF ok THEN "ok" ELSE HandshakeFailure
    /\ IF t_call.op = "start_tls" /\ t_client = "smtp"
       THEN /\ t_dialog' = IF ok
                           THEN Dialog(HandshakeDone(t_local),
                                       t_call.max_line_length,
                                       t_call.timeout)
                           ELSE t_dialog
            /\ t_local' = NoStream
       ELSE /\ t_dialog' = IF ok
                           THEN [t_dialog EXCEPT !.stream = HandshakeDone(@)]
                           ELSE t_dialog
            /\ UNCHANGED t_local
    /\ UNCHANGED <<t_client, t_call, t_remote_host, t_io>>

TFrame == UNCHANGED <<mvars, avars, svars, rvars, evars, cvars, dvars, xvars,
    pvars, ivars, lvars>>

TNext ==
    \/ \E host \in Hosts : Connect(host) /\ TFrame
    \/ \E host \in Hosts, mode \in TlsModes, sni \in SniNames,
          max_len \in LineLengths, timeout \in Timeouts :
            ConnectMode(host, mode, sni, max_len, timeout) /\ TFrame
    \/ \E accepted \in BOOLEAN : ReadGreeting(accepted) /\ TFrame
    \/ TlsCommand /\ TFrame
    \/ \E sni \in SniNames : StartTls(sni) /\ TFrame
    \/ \E accepted, extra \in BOOLEAN :
           SmtpStartTlsReply(accepted, extra) /\ TFrame
    \/ \E accepted, extra \in BOOLEAN :
           Pop3StartTlsReply(accepted, extra) /\ TFrame
    \/ \E ok \in BOOLEAN : Handshake(ok) /\ TFrame

(***************************************************************************)
(* The SMTP credential exchange: smtp::client::authenticate_plain and      *)
(* authenticate_login, and smtp_client::auth_login_impl.  Lines and        *)
(* credentials are sequences of character codes; a reply is its status.    *)
(***************************************************************************)
\* "AUTH LOGIN"
TextAuthLogin == <<65, 85, 84, 72, 32, 76, 79, 71, 73, 78>>

\* "AUTH PLAIN "
TextAuthPlain == <<65, 85, 84, 72, 32, 80, 76, 65, 73, 78, 32>>

\* "user"
TextUser == <<117, 115, 101, 114>>

\* "pass"
TextPass == <<112, 97, 115, 115>>

\* "me", "pw" and the empty string
TextMe == <<109, 101>>

TextPw == <<112, 119>>

Usernames == {TextUser, TextMe, <<>>}

Passwords == {TextPass, TextPw}

\* The statuses a server answers the steps of an AUTH exchange with.
CredReplies == {235, 334, 354, 535}

AuthenticationRejection == "Authentication rejection."

UsernameRejection == "Username rejection."

PasswordRejection == "Password rejection."

\* The character of a 6-bit value in the Base64 alphabet.
B64Char(i) ==
    IF i < 26 THEN 65 + i
    ELSE IF i < 52 THEN 97 + (i - 26)
    ELSE IF i < 62 THEN 48 + (i - 52)
    ELSE IF i = 62 THEN 43
    ELSE 47

\* base64::encode as one string: three bytes become four characters of the
\* alphabet, and a last group of one or two bytes is padded with '='.
RECURSIVE Base64(_)
Base64(bytes) ==
    IF Len(bytes) = 0 THEN <<>>
    ELSE IF Len(bytes) = 1
    THEN <<B64Char(bytes[1] \div 4), B64Char((bytes[1] % 4) * 16), 61, 61>>
    ELSE IF Len(bytes) = 2
    THEN <<B64Char(bytes[1] \div 4),
           B64Char((bytes[1] % 4) * 16 + bytes[2] \div 16),
           B64Char((bytes[2] % 16) * 4), 61>>
    ELSE <<B64Char(bytes[1] \div 4),
           B64Char((bytes[1] % 4) * 16 + bytes[2] \div 16),
           B64Char((bytes[2] % 16) * 4 + bytes[3] \div 64),
           B64Char(bytes[3] % 64)>>
         \o Base64(SubSeq(bytes, 4, Len(bytes)))

\* base64::encode(text): the lines of the encoding.  The credentials here
\* encode to less than a line under every line policy, so there is one line,
\* and none for the empty string.
Base64Lines(bytes) == IF bytes = <<>> THEN <<>> ELSE <<Base64(bytes)>>

\* smtp::client::join_lines
RECURSIVE JoinLines(_)
JoinLines(lines) ==
    IF lines = <<>> THEN <<>> ELSE Head(lines) \o JoinLines(Tail(lines))

\* user_v.empty() ? "" : user_v[0]
FirstLine(lines) == IF lines = <<>> THEN <<>> ELSE Head(lines)

\* A blob without the leading NUL.
PlainBlobNoLeadingNul(username, password) == username \o <<0>> \o password

\* authenticate_plain: NUL, the user name, NUL, the password.
PlainBlob(username, password) == <<0>> \o username \o <<0>> \o password

\* The calls: authenticate(username, password, method) of smtp::client and
\* authenticate(username, password, LOGIN) of the legacy smtp_client.
CredCalls ==
    {c \in [variant : {"client", "legacy"}, method : {"plain", "login"},
            username : Usernames, password : Passwords] :
        c.variant = "legacy" => c.method = "login"}

CIdle ==
    /\ c_call = [variant |-> "client", method |-> "plain",
                 username |-> <<>>, password |-> <<>>]
    /\ c_pc = "idle"
    /\ c_wire = <<>>
    /\ c_replies = <<>>
    /\ c_result = "none"

CInit ==
    /\ c_call \in CredCalls
    /\ c_pc = "idle"
    /\ c_wire = <<>>
    /\ c_replies = <<>>
    /\ c_result = "none"

\* The call returns or throws.
CEnd(result) ==
    /\ c_pc' = "done"
    /\ c_result' = result

\* command(line), first half: the line is written.
CWrite(line, awaiting) ==
    /\ c_wire' = Append(c_wire, line)
    /\ c_pc' = awaiting
    /\ UNCHANGED c_result

\* authenticate_plain up to the first command: AUTH PLAIN and the blob.
AuthenticatePlain ==
    /\ c_call.variant = "client" /\ c_call.method = "plain"
    /\ c_pc = "idle"
    /\ CWrite(TextAuthPlain \o JoinLines(Base64Lines(
                  PlainBlob(c_call.username, c_call.password))),
              "plain_sent")
    /\ UNCHANGED <<c_call, c_replies>>

\* authenticate_plain, lines 280-285: on 334 the blob is sent again alone,
\* otherwise the reply decides.
AuthenticatePlainReply(status) ==
    /\ c_call.variant = "client" /\ c_pc = "plain_sent"
    /\ c_replies' = Append(c_replies, status)
    /\ IF status = 334
       THEN CWrite(JoinLines(Base64Lines(
                       PlainBlob(c_call.username, c_call.password))),
                   "plain_resent")
       ELSE /\ CEnd(IF IsPositiveCompletion(status) THEN "ok"
                    ELSE AuthenticationRejection)
            /\ UNCHANGED c_wire
    /\ UNCHANGED c_call

\* authenticate_plain, lines 282-285: the reply to the blob sent alone.
AuthenticatePlainFinal(status) ==
    /\ c_call.variant = "client" /\ c_pc = "plain_resent"
    /\ c_replies' = Append(c_replies, status)
    /\ CEnd(IF IsPositiveCompletion(status) THEN "ok"
            ELSE AuthenticationRejection)
    /\ UNCHANGED <<c_call, c_wire>>

\* authenticate_login, line 290: AUTH LOGIN is written.
AuthenticateLogin ==
    /\ c_call.variant = "client" /\ c_call.method = "login"
    /\ c_pc = "idle"
    /\ CWrite(TextAuthLogin, "login_sent")
    /\ UNCHANGED <<c_call, c_replies>>

\* authenticate_login, lines 290-299: 334 is required, then the user name.
AuthenticateLoginReply(status) ==
    /\ c_call.variant = "client" /\ c_pc = "login_sent"
    /\ c_replies' = Append(c_replies, status)
    /\ IF status # 334
       THEN CEnd(AuthenticationRejection) /\ UNCHANGED c_wire
       ELSE CWrite(JoinLines(Base64Lines(c_call.username)), "user_sent")
    /\ UNCHANGED c_call

\* authenticate_login, lines 299-303: 334 is required, then the password.
AuthenticateUserReply(status) ==
    /\ c_call.variant = "client" /\ c_pc = "user_sent"
    /\ c_replies' = Append(c_replies, status)
    /\ IF status # 334
       THEN CEnd(UsernameRejection) /\ UNCHANGED c_wire
       ELSE CWrite(JoinLines(Base64Lines(c_call.password)), "pass_sent")
    /\ UNCHANGED c_call

\* authenticate_login, lines 303-305: the reply to the password.
AuthenticatePassReply(status) ==
    /\ c_call.variant = "client" /\ c_pc = "pass_sent"
    /\ c_replies' = Append(c_replies, status)
    /\ CEnd(IF IsPositiveCompletion(status) THEN "ok" ELSE PasswordRejection)
    /\ UNCHANGED <<c_call, c_wire>>

\* auth_login_impl, line 1172: AUTH LOGIN is written.
AuthLoginImpl ==
    /\ c_call.variant = "legacy" /\ c_pc = "idle"
    /\ CWrite(TextAuthLogin, "login_sent")
    /\ UNCHANGED <<c_call, c_replies>>

\* auth_login_impl, lines 1173-1180: a positive intermediate status is
\* required; then the first line of the encoded user name is written.
AuthLoginImplReply(status) ==
    /\ c_call.variant = "legacy" /\ c_pc = "login_sent"
    /\ c_replies' = Append(c_replies, status)
    /\ IF ~IsPositiveIntermediate(status)
       THEN CEnd(AuthenticationRejection) /\ UNCHANGED c_wire
       ELSE CWrite(FirstLine(Base64Lines(c_call.username)), "user_sent")
    /\ UNCHANGED c_call

\* auth_login_impl, lines 1182-1188: a positive intermediate status is
\* required; then the first line of the encoded password is written.
AuthLoginImplUserReply(status) ==
    /\ c_call.variant = "legacy" /\ c_pc = "user_sent"
    /\ c_replies' = Append(c_replies, status)
    /\ IF ~IsPositiveIntermediate(status)
       THEN CEnd(UsernameRejection) /\ UNCHANGED c_wire
       ELSE CWrite(FirstLine(Base64Lines(c_call.password)), "pass_sent")
    /\ UNCHANGED c_call

\* auth_login_impl, lines 1190-1193: the reply to the password.
AuthLoginImplPassReply(status) ==
    /\ c_call.variant = "legacy" /\ c_pc = "pass_sent"
    /\ c_replies' = Append(c_replies, status)
    /\ CEnd(IF IsPositiveCompletion(status) THEN "ok" ELSE PasswordRejection)
    /\ UNCHANGED <<c_call, c_wire>>

CFrame == UNCHANGED <<mvars, avars, svars, rvars, evars, tvars, dvars, xvars,
    pvars, ivars, lvars>>

CNext ==
    \/ AuthenticatePlain /\ CFrame
    \/ \E status \in CredReplies : AuthenticatePlainReply(status) /\ CFrame
    \/ \E status \in CredReplies : AuthenticatePlainFinal(status) /\ CFrame
    \/ AuthenticateLogin /\ CFrame
    \/ \E status \in CredReplies : AuthenticateLoginReply(status) /\ CFrame
    \/ \E status \in CredReplies : AuthenticateUserReply(status) /\ CFrame
    \/ \E status \in CredReplies : AuthenticatePassReply(status) /\ CFrame
    \/ AuthLoginImpl /\ CFrame
    \/ \E status \in CredReplies : AuthLoginImplReply(status) /\ CFrame
    \/ \E status \in CredReplies : AuthLoginImplUserReply(status) /\ CFrame
    \/ \E status \in CredReplies : AuthLoginImplPassReply(status) /\ CFrame

(***************************************************************************)
(* dialog: read_line and read_exactly over read_buffer_.                   *)
(*                                                                         *)
(* The peer sends a byte stream and closes; the network delivers it in     *)
(* pieces of any size.  Bytes are character codes.  d_stream holds the     *)
(* whole stream (all), what the socket has not delivered yet (net) and the *)
(* dialog's max_line_length_ (max).  d_log is the history of the completed *)
(* calls: the error code, the string returned, the bytes the call erased   *)
(* from read_buffer_, the size of read_buffer_ when the call began and the *)
(* number of bytes the call took from the socket.                          *)
(***************************************************************************)
LF == 10

CR == 13

\* The bytes of a stream: the letter a, CR and LF.
StreamBytes == {97, CR, LF}

MaxStream == 4

MaxCeiling == 2

MaxReads == 2

MaxExact == 2

\* boost::asio::error::message_size
MessageSize == "message_size"

\* boost::asio::error::not_found, async_read_until on a full buffer
NotFound == "not_found"

\* boost::asio::error::eof
Eof == "eof"

Min(a, b) == IF a <= b THEN a ELSE b

Take(s, k) == SubSeq(s, 1, k)

Drop(s, k) == SubSeq(s, k + 1, Len(s))

\* read_buffer_.find('\n') as a position counted from 1; 0 is npos.
FindLF(s) ==
    IF \E i \in 1..Len(s) : s[i] = LF
    THEN CHOOSE i \in 1..Len(s) :
            s[i] = LF /\ \A j \in 1..(i - 1) : s[j] # LF
    ELSE 0

\* A line length that always counts the CR before the LF.
LineLengthKeepsCR(buffer, p) == p - 1

\* line_length: the bytes before the LF at position p, without a CR that
\* immediately precedes it.
LineLength(buffer, p) ==
    IF p > 1 /\ buffer[p - 1] = CR THEN p - 2 ELSE p - 1

\* A ceiling test that lets a line of max + 1 bytes through.
OverCeilingOffByOne(length, max) == length > max + 1

\* line_length > max_line_length_
OverCeiling(length, max) == length > max

\* The line served from a buffer whose first LF is at p: message_size when
\* the line is over the ceiling, else the line, and the bytes up to and
\* including the LF erased.
ServeLine(buffer, p, max) ==
    IF OverCeiling(LineLength(buffer, p), max)
    THEN [ec |-> MessageSize, value |-> <<>>, erased |-> <<>>]
    ELSE [ec |-> "ok", value |-> Take(buffer, LineLength(buffer, p)),
          erased |-> Take(buffer, p)]

\* A shortfall that ignores what is buffered.
ShortfallWhole(n, buffered) == n

\* remaining = n - read_buffer_.size()
Shortfall(n, buffered) == n - buffered

\* No call in progress.
DNoOp == [kind |-> "none", n |-> 0, buffered |-> 0, fetched |-> 0]

\* The streams a peer sends, the ceilings a dialog is built with.
DStreams ==
    [all : SeqsUpTo(StreamBytes, MaxStream), max : 1..MaxCeiling]

DIdle ==
    /\ d_stream = [all |-> <<>>, net |-> <<>>, max |-> 1]
    /\ d_buffer = <<>>
    /\ d_op = DNoOp
    /\ d_log = <<>>

DInit ==
    /\ \E s \in DStreams :
          d_stream = [all |-> s.all, net |-> s.all, max |-> s.max]
    /\ d_buffer = <<>>
    /\ d_op = DNoOp
    /\ d_log = <<>>

\* self.complete(ec, value): the call ends and its outcome is recorded.
DComplete(kind, n, result, buffer, buffered, fetched) ==
    /\ d_log' = Append(d_log,
                       [kind |-> kind, n |-> n, ec |-> result.ec,
                        value |-> result.value, erased |-> result.erased,
                        buffered |-> buffered, fetched |-> fetched])
    /\ d_buffer' = Drop(buffer, Len(result.erased))
    /\ d_op' = DNoOp

DFailure(ec) == [ec |-> ec, value |-> <<>>, erased |-> <<>>]

\* read_line, first entry: a line already in read_buffer_ is served at once;
\* otherwise async_read_until is started on the buffer capped at
\* max_line_length_ + 2.
ReadLineStart ==
    /\ d_op.kind = "none"
    /\ Len(d_log) < MaxReads
    /\ IF FindLF(d_buffer) # 0
       THEN DComplete("read_line", 0,
                      ServeLine(d_buffer, FindLF(d_buffer), d_stream.max),
                      d_buffer, Len(d_buffer), 0)
       ELSE /\ d_op' = [kind |-> "read_line", n |-> 0,
                        buffered |-> Len(d_buffer), fetched |-> 0]
            /\ UNCHANGED <<d_buffer, d_log>>
    /\ UNCHANGED d_stream

\* One round of async_read_until: a full buffer without LF ends it with
\* not_found and a closed stream with eof; otherwise the socket delivers
\* some bytes, at most up to the cap, and when they hold an LF the line is
\* served as in the second entry of read_line.
ReadUntilStep(k) ==
    /\ d_op.kind = "read_line"
    /\ IF Len(d_buffer) >= d_stream.max + 2
       THEN /\ k = 0
            /\ DComplete("read_line", 0, DFailure(NotFound), d_buffer,
                         d_op.buffered, d_op.fetched)
            /\ UNCHANGED d_stream
       ELSE IF d_stream.net = <<>>
       THEN /\ k = 0
            /\ DComplete("read_line", 0, DFailure(Eof), d_buffer,
                         d_op.buffered, d_op.fetched)
            /\ UNCHANGED d_stream
       ELSE /\ k >= 1
            /\ k <= Min(Len(d_stream.net),
                        d_stream.max + 2 - Len(d_buffer))
            /\ d_stream' = [d_stream EXCEPT !.net = Drop(@, k)]
            /\ LET buffer == d_buffer \o Take(d_stream.net, k)
               IN  IF FindLF(buffer) # 0
                   THEN DComplete("read_line", 0,
                                  ServeLine(buffer, FindLF(buffer),
                                            d_stream.max),
                                  buffer, d_op.buffered, d_op.fetched + k)
                   ELSE /\ d_buffer' = buffer
                        /\ d_op' = [d_op EXCEPT !.fetched = @ + k]
                        /\ UNCHANGED d_log

\* read_exactly(n), first entry: nothing for n = 0; from read_buffer_ when
\* it holds n bytes; otherwise async_read is started for the shortfall.
ReadExactlyStart(n) ==
    /\ d_op.kind = "none"
    /\ Len(d_log) < MaxReads
    /\ IF n = 0
       THEN DComplete("read_exactly", n,
                      [ec |-> "ok", value |-> <<>>, erased |-> <<>>],
                      d_buffer, Len(d_buffer), 0)
       ELSE IF Len(d_buffer) >= n
       THEN DComplete("read_exactly", n,
                      [ec |-> "ok", value |-> Take(d_buffer, n),
                       erased |-> Take(d_buffer, n)],
                      d_buffer, Len(d_buffer), 0)
       ELSE /\ d_op' = [kind |-> "read_exactly", n |-> n,
                        buffered |-> Len(d_buffer), fetched |-> 0]
            /\ UNCHANGED <<d_buffer, d_log>>
    /\ UNCHANGED d_stream

\* One round of async_read with transfer_exactly(remaining): a closed
\* stream ends it with eof, what was read staying in read_buffer_;
\* otherwise some of the missing bytes arrive, and with the last of them
\* the first n bytes of read_buffer_ are returned and erased.
ReadExactlyStep(k) ==
    /\ d_op.kind = "read_exactly"
    /\ IF d_stream.net = <<>>
       THEN /\ k = 0
            /\ DComplete("read_exactly", d_op.n, DFailure(Eof), d_buffer,
                         d_op.buffered, d_op.fetched)
            /\ UNCHANGED d_stream
       ELSE /\ k >= 1
            /\ k <= Min(Len(d_stream.net),
                        Shortfall(d_op.n, d_op.buffered) - d_op.fetched)
            /\ d_stream' = [d_stream EXCEPT !.net = Drop(@, k)]
            /\ LET buffer == d_buffer \o Take(d_stream.net, k)
               IN  IF d_op.fetched + k = Shortfall(d_op.n, d_op.buffered)
                   THEN IF Len(buffer) < d_op.n
                        THEN DComplete("read_exactly", d_op.n,
                                       DFailure("operation_aborted"),
                                       buffer, d_op.buffered,
                                       d_op.fetched + k)
                        ELSE DComplete("read_exactly", d_op.n,
                                       [ec |-> "ok",
                                        value |-> Take(buffer, d_op.n),
                                        erased |-> Take(buffer, d_op.n)],
                                       buffer, d_op.buffered,
                                       d_op.fetched + k)
                   ELSE /\ d_buffer' = buffer
                        /\ d_op' = [d_op EXCEPT !.fetched = @ + k]
                        /\ UNCHANGED d_log

DFrame == UNCHANGED <<mvars, avars, svars, rvars, evars, tvars, cvars, xvars,
    pvars, ivars, lvars>>

DNext ==
    \/ ReadLineStart /\ DFrame
    \/ \E k \in 0..(MaxCeiling + 2) : ReadUntilStep(k) /\ DFrame
    \/ \E n \in 0..MaxExact : ReadExactlyStart(n) /\ DFrame
    \/ \E k \in 0..MaxExact : ReadExactlyStep(k) /\ DFrame

(***************************************************************************)
(* dialog: write_line, and async_with_timeout around one socket operation. *)
(*                                                                         *)
(* The operations of a dialog run one after the other.  x_op is the one in *)
(* flight: io is the state of its socket operation ("pending", or the      *)
(* error code it ended with while its completion handler has not run yet), *)
(* timer the state of its steady_timer ("none" without a timeout, "armed", *)
(* "expired" once the wait handler is queued and cannot be cancelled any   *)
(* more, "ran"), timed_out the flag of its timeout_state, and hit records  *)
(* whose cancel() ended the socket operation.  x_dlg counts the operations *)
(* started and the wait handlers of completed operations still queued.    *)
(***************************************************************************)
MaxOps == 2

MaxText == 2

OperationAborted == "operation_aborted"

TimedOut == "timed_out"

\* The lines handed to write_line.
Texts == SeqsUpTo(StreamBytes, MaxText)

\* A normalisation without the case of a trailing CR.
NormalizeLineNoCRCase(line) ==
    IF Len(line) >= 2 /\ line[Len(line) - 1] = CR /\ line[Len(line)] = LF
    THEN line
    ELSE IF line # <<>> /\ line[Len(line)] = LF
    THEN Take(line, Len(line) - 1) \o <<CR, LF>>
    ELSE line \o <<CR, LF>>

\* dialog::normalize_line
NormalizeLine(line) ==
    IF Len(line) >= 2 /\ line[Len(line) - 1] = CR /\ line[Len(line)] = LF
    THEN line
    ELSE IF line # <<>> /\ line[Len(line)] = LF
    THEN Take(line, Len(line) - 1) \o <<CR, LF>>
    ELSE IF line # <<>> /\ line[Len(line)] = CR
    THEN line \o <<LF>>
    ELSE line \o <<CR, LF>>

\* A completion that passes the error code on as it is.
CompletionCodeRaw(timed_out, ec) == ec

\* if (state->timed_out.load() && ec == operation_aborted) ec = timed_out;
CompletionCode(timed_out, ec) ==
    IF timed_out /\ ec = OperationAborted THEN TimedOut ELSE ec

XNoOp ==
    [kind |-> "none", text |-> <<>>, payload |-> <<>>, io |-> "none",
     timer |-> "none", timed_out |-> FALSE, hit |-> "none"]

XNoneDone == [kind |-> "none", ec |-> "none", hit |-> "none"]

XIdle ==
    /\ x_dlg = [timeout |-> FALSE, ops |-> 0, stale |-> 0]
    /\ x_op = XNoOp
    /\ x_done = XNoneDone

\* A dialog built with or without a timeout.
XInit ==
    /\ x_dlg \in [timeout : BOOLEAN, ops : {0}, stale : {0}]
    /\ x_op = XNoOp
    /\ x_done = XNoneDone

\* async_with_timeout, first entry: with a timeout the timer is created
\* and armed, then the socket operation is initiated.
XStart(kind, text, payload) ==
    /\ x_op.io = "none"
    /\ x_dlg.ops < MaxOps
    /\ x_dlg' = [x_dlg EXCEPT !.ops = @ + 1]
    /\ x_op' = [kind |-> kind, text |-> text, payload |-> payload,
                io |-> "pending",
                timer |-> IF x_dlg.timeout THEN "armed" ELSE "none",
                timed_out |-> FALSE, hit |-> "none"]
    /\ UNCHANGED x_done

\* write_line(line): the payload is the normalised line, written under
\* async_with_timeout.
WriteLine(text) == XStart("write_line", text, NormalizeLine(text))

\* The commands that carry a caller's string: smtp::client::send (MAIL
\* FROM, RCPT TO), smtp::client::ehlo and pop3::login (USER, PASS).
CommandForms == {"MAIL FROM", "RCPT TO", "EHLO", "USER", "PASS"}

\* Argument strings: "me", "a" CR LF "x", "a" LF "x", and CR LF alone.
Arguments == {<<109, 101>>, <<97, CR, LF, 120>>, <<97, LF, 120>>, <<CR, LF>>}

\* The line each command builds around its argument.
CommandText(form, arg) ==
    CASE form = "MAIL FROM" -> <<77, 65, 73, 76, 32, 70, 82, 79, 77, 58, 32, 60>> \o arg \o <<62>>
      [] form = "RCPT TO" -> <<82, 67, 80, 84, 32, 84, 79, 58, 32, 60>> \o arg \o <<62>>
      [] form = "EHLO" -> <<69, 72, 76, 79, 32>> \o arg
      [] form = "USER" -> <<85, 83, 69, 82, 32>> \o arg
      [] OTHER -> <<80, 65, 83, 83, 32>> \o arg

\* command(line) of the SMTP client, send_command(command) of the POP3
\* client: the line goes to write_line as it is.
WriteCommand(form, arg) ==
    XStart("command", CommandText(form, arg),
           NormalizeLine(CommandText(form, arg)))

\* read_line or read_exactly with nothing buffered: a socket read under
\* async_with_timeout.
TimedRead == XStart("read", <<>>, <<>>)

\* The socket operation ends by itself: done, or failed because the peer
\* closed.
IoCompletes(ec) ==
    /\ x_op.io = "pending"
    /\ x_op' = [x_op EXCEPT !.io = ec]
    /\ UNCHANGED <<x_dlg, x_done>>

\* The deadline passes: the wait handler is queued with no error.
TimerExpires ==
    /\ x_op.timer = "armed"
    /\ x_op' = [x_op EXCEPT !.timer = "expired"]
    /\ UNCHANGED <<x_dlg, x_done>>

\* The wait handler of the operation in flight runs: timed_out is set and
\* the socket's pending operation is cancelled.
TimerHandlerRuns ==
    /\ x_op.timer = "expired"
    /\ x_op' = [x_op EXCEPT
                  !.timer = "ran",
                  !.timed_out = TRUE,
                  !.io = IF @ = "pending" THEN OperationAborted ELSE @,
                  !.hit = IF x_op.io = "pending" THEN "own" ELSE @]
    /\ UNCHANGED <<x_dlg, x_done>>

\* The wait handler of an operation that has completed runs: it sets the
\* flag of that operation's state and cancels what is pending on the
\* socket now.
StaleHandlerRuns ==
    /\ x_dlg.stale > 0
    /\ x_dlg' = [x_dlg EXCEPT !.stale = @ - 1]
    /\ x_op' = [x_op EXCEPT
                  !.io = IF @ = "pending" THEN OperationAborted ELSE @,
                  !.hit = IF x_op.io = "pending" THEN "stale" ELSE @]
    /\ UNCHANGED x_done

\* async_with_timeout, second entry: the timer is cancelled, which stops
\* an armed timer but not a handler already queued; the error code is
\* translated and the operation completes.
OpCompletes ==
    /\ x_op.io \notin {"none", "pending"}
    /\ x_dlg' = [x_dlg EXCEPT
                   !.stale = IF x_op.timer = "expired" THEN @ + 1 ELSE @]
    /\ x_done' = [kind |-> x_op.kind,
                  ec |-> CompletionCode(x_op.timed_out, x_op.io),
                  hit |-> x_op.hit]
    /\ x_op' = XNoOp

XFrame == UNCHANGED <<mvars, avars, svars, rvars, evars, tvars, cvars, dvars,
    pvars, ivars, lvars>>

XNext ==
    \/ \E text \in Texts : WriteLine(text) /\ XFrame
    \/ \E form \in CommandForms, arg \in Arguments :
           WriteCommand(form, arg) /\ XFrame
    \/ TimedRead /\ XFrame
    \/ \E ec \in {"ok", Eof} : IoCompletes(ec) /\ XFrame
    \/ TimerExpires /\ XFrame
    \/ TimerHandlerRuns /\ XFrame
    \/ StaleHandlerRuns /\ XFrame
    \/ OpCompletes /\ XFrame

\* The event loop runs every handler that is ready, and a deadline that is
\* set passes.
XFairness ==
    /\ WF_vars(TimerExpires /\ XFrame)
    /\ WF_vars(TimerHandlerRuns /\ XFrame)
    /\ WF_vars(StaleHandlerRuns /\ XFrame)
    /\ WF_vars(OpCompletes /\ XFrame)

(***************************************************************************)
(* POP3 commands: the status line and the dot-terminated payload.          *)
(*                                                                         *)
(* p_server holds the lines the server has sent and the client has not     *)
(* read yet, as read_line returns them (terminator stripped).  p_call is   *)
(* the command in progress with the lines of the server as they were when  *)
(* it started, and the number of lines it has read; p_result is what the   *)
(* command returned or threw.                                              *)
(***************************************************************************)
MaxPayload == 3

TOKEN_SEPARATOR_CHAR == 32

OK_RESPONSE == <<43, 79, 75>>                              \* "+OK"

ERR_RESPONSE == <<45, 69, 82, 82>>                         \* "-ERR"

END_OF_DATA == <<46>>                                      \* "."

UnknownResponseStatus == "Unknown response status."

\* First lines a server may answer with: "+OK 12 octets", "+OK",
\* "-ERR no such message", "-ERR", "+OKAY 1" and the empty line.
StatusLines ==
    {<<43, 79, 75, 32, 49, 50, 32, 111, 99, 116, 101, 116, 115>>,
     OK_RESPONSE,
     <<45, 69, 82, 82, 32, 110, 111, 32, 115, 117, 99, 104, 32, 109, 101,
       115, 115, 97, 103, 101>>,
     ERR_RESPONSE,
     <<43, 79, 75, 65, 89, 32, 49>>,
     <<>>}

\* Lines of a payload: "Hello", "..dotline", "..", ".1 1", "2 5", the
\* empty line and the terminator ".".
PayloadLines ==
    {<<72, 101, 108, 108, 111>>,
     <<46, 46, 100, 111, 116, 108, 105, 110, 101>>,
     <<46, 46>>,
     <<46, 49, 32, 49>>,
     <<50, 32, 53>>,
     <<>>,
     END_OF_DATA}

\* The commands of the two clients that are modelled.
Pop3Calls ==
    [client : {"pop3"}, cmd : {"CAPA", "LIST", "RETR", "DELE"}]
    \cup [client : {"pop3_client"}, cmd : {"LIST", "UIDL", "RETR", "TOP", "DELE"}]

MultiLine(cmd) == cmd \in {"CAPA", "LIST", "UIDL", "RETR", "TOP"}

\* The message each command throws on -ERR.
Pop3ErrorMessage(cmd) ==
    CASE cmd = "CAPA" -> "Capabilities failure."
      [] cmd \in {"LIST", "UIDL"} -> "Listing all messages failure."
      [] cmd \in {"RETR", "TOP"} -> "Fetching message failure."
      [] OTHER -> "Removing message failure."

\* std::string::find: the 1-based index of the first c in s from index
\* from on, 0 when there is none.
RECURSIVE FindFrom(_, _, _)
FindFrom(s, c, from) ==
    IF from > Len(s) THEN 0
    ELSE IF s[from] = c THEN from
    ELSE FindFrom(s, c, from + 1)

\* A status parser that accepts every status.
ParseStatusAcceptsAll(line) ==
    LET pos == FindFrom(line, TOKEN_SEPARATOR_CHAR, 1)
        status == IF pos = 0 THEN line ELSE Take(line, pos - 1)
    IN  [known |-> TRUE,
         status |-> status,
         rest |-> IF pos # 0 THEN Drop(line, pos) ELSE <<>>]

\* pop3_base::parse_status: the status is the text before the first space,
\* the rest is the text after it.
ParseStatus(line) ==
    LET pos == FindFrom(line, TOKEN_SEPARATOR_CHAR, 1)
        status == IF pos = 0 THEN line ELSE Take(line, pos - 1)
    IN  [known |-> status = OK_RESPONSE \/ status = ERR_RESPONSE,
         status |-> status,
         rest |-> IF pos # 0 THEN Drop(line, pos) ELSE <<>>]

\* pop3_base::is_ok
IsOk(status) == status = OK_RESPONSE

\* The removal of the leading dot as each payload loop does it.
Unstuff(client, cmd, line) ==
    IF client = "pop3"
    THEN IF line # <<>> /\ line[1] = 46 THEN Drop(line, 1) ELSE line
    ELSE IF cmd \in {"RETR", "TOP"}
    THEN IF Len(line) > 1 /\ line[1] = 46 THEN Drop(line, 1) ELSE line
    ELSE line

\* Formatted input: leading white space is skipped.
RECURSIVE SkipSpaces(_)
SkipSpaces(s) ==
    IF s # <<>> /\ s[1] = 32 THEN SkipSpaces(Tail(s)) ELSE s

\* The length of the longest prefix of digits.
RECURSIVE DigitPrefix(_)
DigitPrefix(s) ==
    IF s # <<>> /\ IsDigit(s[1]) THEN 1 + DigitPrefix(Tail(s)) ELSE 0

\* The value of a string of digits.
RECURSIVE Decimal(_)
Decimal(s) ==
    IF s = <<>> THEN 0 ELSE 10 * Decimal(Take(s, Len(s) - 1)) + (s[Len(s)] - 48)

\* iss >> num: the number read and the rest, or ok = FALSE.
ReadUnsigned(s) ==
    LET t == SkipSpaces(s)
        n == DigitPrefix(t)
    IN  [ok |-> n > 0, value |-> Decimal(Take(t, n)), rest |-> Drop(t, n)]

\* iss >> uid: the next word.
ReadWord(s) ==
    LET t == SkipSpaces(s)
        pos == FindFrom(t, 32, 1)
        n == IF pos = 0 THEN Len(t) ELSE pos - 1
    IN  [ok |-> n > 0, value |-> Take(t, n), rest |-> Drop(t, n)]

\* msg_list[num] = size
Assign(map, num, size) == {e \in map : e[1] # num} \cup {<<num, size>>}

\* What one payload line adds to the result of the command.
Accumulate(cmd, value, line) ==
    CASE cmd \in {"RETR", "TOP"} -> value \o line \o <<CR, LF>>
      [] cmd = "CAPA" -> Append(value, line)
      [] cmd = "LIST" ->
           LET num == ReadUnsigned(line)
               size == ReadUnsigned(num.rest)
           IN  IF num.ok /\ size.ok THEN Assign(value, num.value, size.value)
               ELSE value
      [] OTHER ->
           LET num == ReadUnsigned(line)
               uid == ReadWord(num.rest)
           IN  IF num.ok /\ uid.ok THEN Assign(value, num.value, uid.value)
               ELSE value

\* The empty result of a command.
EmptyValue(cmd) == IF cmd \in {"LIST", "UIDL"} THEN {} ELSE <<>>

PNoCall ==
    [client |-> "none", cmd |-> "none", pc |-> "idle", script |-> <<>>,
     reads |-> 0, value |-> <<>>]

PNoResult == [error |-> "none", detail |-> <<>>, value |-> <<>>]

PIdle ==
    /\ p_server = <<>>
    /\ p_call = PNoCall
    /\ p_result = PNoResult

\* A session after the greeting; the server will answer the next command
\* with a first line and up to MaxPayload further lines.
PInit ==
    /\ \E first \in StatusLines, payload \in SeqsUpTo(PayloadLines, MaxPayload) :
           p_server = <<first>> \o payload
    /\ p_call = PNoCall
    /\ p_result = PNoResult

\* send_command / write_line of the command line.
Pop3Command(call) ==
    /\ p_call.pc = "idle"
    /\ p_call' = [client |-> call.client, cmd |-> call.cmd, pc |-> "status",
                  script |-> p_server, reads |-> 0,
                  value |-> EmptyValue(call.cmd)]
    /\ UNCHANGED <<p_server, p_result>>

\* read_ok_response, or the same three lines inlined in pop3_client: the
\* first line is read and classified.
Pop3ReadStatus ==
    /\ p_call.pc = "status"
    /\ IF p_server = <<>>
       THEN /\ p_result' = [error |-> Eof, detail |-> <<>>, value |-> <<>>]
            /\ p_call' = [p_call EXCEPT !.pc = "done"]
            /\ UNCHANGED p_server
       ELSE LET line == Head(p_server)
                parsed == ParseStatus(line)
            IN  /\ p_server' = Tail(p_server)
                /\ IF ~parsed.known
                   THEN /\ p_result' = [error |-> UnknownResponseStatus,
                                        detail |-> line, value |-> <<>>]
                        /\ p_call' = [p_call EXCEPT !.pc = "done", !.reads = @ + 1]
                   ELSE IF ~IsOk(parsed.status)
                   THEN /\ p_result' = [error |-> Pop3ErrorMessage(p_call.cmd),
                                        detail |-> parsed.rest, value |-> <<>>]
                        /\ p_call' = [p_call EXCEPT !.pc = "done", !.reads = @ + 1]
                   ELSE IF MultiLine(p_call.cmd)
                   THEN /\ p_call' = [p_call EXCEPT !.pc = "payload", !.reads = @ + 1]
                        /\ UNCHANGED p_result
                   ELSE /\ p_result' = [error |-> "ok", detail |-> parsed.rest,
                                        value |-> <<>>]
                        /\ p_call' = [p_call EXCEPT !.pc = "done", !.reads = @ + 1]

\* One turn of the payload loop: a line is read; the terminator ends the
\* command, any other line is added to the result.
Pop3ReadPayload ==
    /\ p_call.pc = "payload"
    /\ IF p_server = <<>>
       THEN /\ p_result' = [error |-> Eof, detail |-> <<>>, value |-> <<>>]
            /\ p_call' = [p_call EXCEPT !.pc = "done"]
            /\ UNCHANGED p_server
       ELSE LET line == Head(p_server)
            IN  /\ p_server' = Tail(p_server)
                /\ IF line = END_OF_DATA
                   THEN /\ p_result' = [error |-> "ok", detail |-> <<>>,
                                        value |-> p_call.value]
                        /\ p_call' = [p_call EXCEPT !.pc = "done", !.reads = @ + 1]
                   ELSE /\ p_call' = [p_call EXCEPT
                                        !.reads = @ + 1,
                                        !.value = Accumulate(p_call.cmd, @,
                                                     Unstuff(p_call.client,
                                                             p_call.cmd, line))]
                        /\ UNCHANGED p_result

PFrame == UNCHANGED <<mvars, avars, svars, rvars, evars, tvars, cvars, dvars,
    xvars, ivars, lvars>>

PNext ==
    \/ \E call \in Pop3Calls : Pop3Command(call) /\ PFrame
    \/ Pop3ReadStatus /\ PFrame
    \/ Pop3ReadPayload /\ PFrame

(***************************************************************************)
(* IMAP: tagged commands of imap_client.                                   *)
(*                                                                         *)
(* i_server holds the response lines the server has sent and the client    *)
(* has not read yet, each as read_response_line returns it: its fragments  *)
(* and the literals between them.  i_client is the client object in use:   *)
(* its tag counter, the number of clients start_tls has returned before    *)
(* it, and whether it still has its stream.  i_call is the command in      *)
(* progress and i_sent the command lines written in the session.           *)
(***************************************************************************)
MaxServerLines == 3

MaxCommands == 2

TextNoop == <<78, 79, 79, 80>>                             \* "NOOP"

InvalidResponseTag == "Invalid response tag."

InvalidResponseStatus == "Invalid response status."

TextCapability == <<67, 65, 80, 65, 66, 73, 76, 73, 84, 89>>   \* "CAPABILITY"

CapabilityFailure == "Capability failure."

\* What the caller passes to command(), CAPABILITY for capability() and
\* STARTTLS for start_tls.
ImapCommands == {TextNoop, TextEmpty, TextTls, TextCapability}

\* A response line without literals.
PlainLine(text) == [fragments |-> <<text>>, literals |-> <<>>]

\* "* 1 EXISTS", "* 1 FETCH (BODY {2}" + literal "hi" + ")", "+ go",
\* "1 OK done", "2 OK done", "1 no denied", "10 OK x", "1 FOO", "1 BAD".
ServerLines ==
    {PlainLine(<<42, 32, 49, 32, 69, 88, 73, 83, 84, 83>>),
     [fragments |-> << <<42, 32, 49, 32, 70, 69, 84, 67, 72, 32, 40, 66, 79,
                         68, 89, 32, 123, 50, 125>>, <<41>> >>,
      literals |-> << <<104, 105>> >>],
     PlainLine(<<43, 32, 103, 111>>),
     PlainLine(<<49, 32, 79, 75, 32, 100, 111, 110, 101>>),
     PlainLine(<<50, 32, 79, 75, 32, 100, 111, 110, 101>>),
     PlainLine(<<49, 32, 110, 111, 32, 100, 101, 110, 105, 101, 100>>),
     PlainLine(<<49, 48, 32, 79, 75, 32, 120>>),
     PlainLine(<<49, 32, 70, 79, 79>>),
     PlainLine(<<49, 32, 66, 65, 68>>)}

\* std::to_string of an unsigned number.
RECURSIVE ToDecimal(_)
ToDecimal(n) ==
    IF n < 10 THEN <<48 + n>> ELSE ToDecimal(n \div 10) \o <<48 + (n % 10)>>

\* std::tolower of a byte.
ToLower(c) == IF c >= 65 /\ c <= 90 THEN c + 32 ELSE c

\* imap_client::starts_with
StartsWith(text, prefix) ==
    Len(text) >= Len(prefix) /\ Take(text, Len(prefix)) = prefix

\* imap_client::ltrim
RECURSIVE Ltrim(_)
Ltrim(text) ==
    IF text # <<>> /\ text[1] = 32 THEN Ltrim(Tail(text)) ELSE text

\* imap_client::split_token
SplitToken(text) ==
    LET t == Ltrim(text)
        pos == FindFrom(t, 32, 1)
    IN  IF pos = 0 THEN <<t, <<>>>>
        ELSE <<Take(t, pos - 1), Ltrim(Drop(t, pos))>>

\* imap_client::iequals
IEquals(lhs, rhs) ==
    /\ Len(lhs) = Len(rhs)
    /\ \A i \in 1..Len(lhs) : ToLower(lhs[i]) = ToLower(rhs[i])

\* A status parser that compares the atom byte for byte.
ParseStatusAtomExact(atom) ==
    CASE atom = <<79, 75>> -> "OK"
      [] atom = <<78, 79>> -> "NO"
      [] atom = <<66, 65, 68>> -> "BAD"
      [] atom = <<80, 82, 69, 65, 85, 84, 72>> -> "PREAUTH"
      [] atom = <<66, 89, 69>> -> "BYE"
      [] OTHER -> "UNKNOWN"

\* imap_client::parse_status_atom
ParseStatusAtom(atom) ==
    CASE IEquals(atom, <<79, 75>>) -> "OK"
      [] IEquals(atom, <<78, 79>>) -> "NO"
      [] IEquals(atom, <<66, 65, 68>>) -> "BAD"
      [] IEquals(atom, <<80, 82, 69, 65, 85, 84, 72>>) -> "PREAUTH"
      [] IEquals(atom, <<66, 89, 69>>) -> "BYE"
      [] OTHER -> "UNKNOWN"

\* imap_client::is_tagged_status
IsTaggedStatus(status) == status \in {"OK", "NO", "BAD"}

\* A test that takes every line starting with the tag for the completion.
IsTaggedResponsePrefix(line, tag) == StartsWith(line, tag)

\* imap_client::is_tagged_response
IsTaggedResponse(line, tag) ==
    IF ~StartsWith(line, tag) THEN FALSE
    ELSE IF Len(line) = Len(tag) THEN TRUE
    ELSE line[Len(tag) + 1] = 32

\* imap_client::parse_tagged_status: the status and text, or the error
\* thrown.
ParseTaggedStatus(line, tag) ==
    IF ~StartsWith(line, tag)
    THEN [error |-> InvalidResponseTag, status |-> "UNKNOWN", text |-> <<>>]
    ELSE LET split == SplitToken(Drop(line, Len(tag)))
             status == ParseStatusAtom(split[1])
         IN  IF status = "UNKNOWN"
             THEN [error |-> InvalidResponseStatus, status |-> status,
                   text |-> <<>>]
             ELSE [error |-> "none", status |-> status, text |-> split[2]]

\* The context the operation sending the command passes to ensure_ok;
\* command() itself returns the response whatever its status.
EnsureContext(command) ==
    CASE command = TextTls -> StartTlsFailure
      [] command = TextCapability -> CapabilityFailure
      [] OTHER -> "none"

\* imap_client::ensure_ok: the message thrown is the context with
\* " failure." and, when the response text is not empty, a space and the
\* text.
EnsureOk(status, text, context) ==
    IF status = "OK" \/ context = "none"
    THEN [error |-> "ok", appended |-> <<>>]
    ELSE [error |-> context,
          appended |-> IF text # <<>> THEN <<32>> \o text ELSE <<>>]

\* A command line with the tag but no space.
CommandLineNoSpace(tag, command) == tag \o command

\* imap_client::send_command, line 787.
CommandLine(tag, command) ==
    IF command = <<>> THEN tag ELSE tag \o <<32>> \o command

\* A client as its constructor leaves it.
NewImapClient(gen) == [tag |-> 0, gen |-> gen, usable |-> TRUE]

INoCall ==
    [pc |-> "idle", tag |-> <<>>, cmd |-> <<>>, script |-> <<>>,
     lines |-> <<>>, literals |-> <<>>, status |-> "UNKNOWN", text |-> <<>>,
     error |-> "none", appended |-> <<>>]

IIdle ==
    /\ i_client = NewImapClient(0)
    /\ i_server = <<>>
    /\ i_call = INoCall
    /\ i_sent = <<>>

\* A new client on a connected stream; the server will send up to
\* MaxServerLines lines during the session.
IInit ==
    /\ i_client = NewImapClient(0)
    /\ i_server \in SeqsUpTo(ServerLines, MaxServerLines)
    /\ i_call = INoCall
    /\ i_sent = <<>>

\* command(), lines 318-319 with send_command: the counter is incremented
\* and the tagged line is written with write_line.
ImapCommand(command) ==
    /\ i_call.pc \in {"idle", "done"}
    /\ i_client.usable
    /\ Len(i_sent) < MaxCommands
    /\ LET tag == ToDecimal(i_client.tag + 1)
       IN  /\ i_client' = [i_client EXCEPT !.tag = @ + 1]
           /\ i_sent' = Append(i_sent,
                  [gen |-> i_client.gen, tag |-> tag, command |-> command,
                   line |-> NormalizeLine(CommandLine(tag, command))])
           /\ i_call' = [INoCall EXCEPT !.pc = "reading", !.tag = tag,
                                        !.cmd = command, !.script = i_server]
    /\ UNCHANGED i_server

\* command(), one turn of the loop at lines 320-344, and after the tagged
\* completion the ensure_ok of capability() at line 351 and of start_tls at
\* line 373.
ImapReadLine ==
    /\ i_call.pc = "reading"
    /\ i_server # <<>>
    /\ LET line == Head(i_server)
           head == Head(line.fragments)
           tagged == IsTaggedResponse(head, i_call.tag)
           literals == i_call.literals \o line.literals
           parsed == ParseTaggedStatus(head, i_call.tag)
           ensured == EnsureOk(parsed.status, parsed.text,
                               EnsureContext(i_call.cmd))
       IN  /\ i_server' = Tail(i_server)
           /\ IF ~tagged
              THEN i_call' = [i_call EXCEPT !.lines = Append(@, line),
                                            !.literals = literals]
              ELSE IF parsed.error # "none"
              THEN i_call' = [i_call EXCEPT !.literals = literals,
                                            !.pc = "done",
                                            !.error = parsed.error]
              ELSE IF ~IsTaggedStatus(parsed.status)
              THEN i_call' = [i_call EXCEPT !.literals = literals,
                                            !.status = parsed.status,
                                            !.text = parsed.text,
                                            !.pc = "done",
                                            !.error = InvalidResponseStatus]
              ELSE i_call' = [i_call EXCEPT
                                !.lines = Append(@, line),
                                !.literals = literals,
                                !.status = parsed.status,
                                !.text = parsed.text,
                                !.pc = IF i_call.cmd = TextTls
                                          /\ parsed.status = "OK"
                                       THEN "handshake" ELSE "done",
                                !.error = ensured.error,
                                !.appended = ensured.appended]
    /\ UNCHANGED <<i_client, i_sent>>

\* start_tls, lines 375-379: the stream is moved into an ssl stream and
\* the handshake runs; the session goes on with the client built from it.
ImapStartTls(ok) ==
    /\ i_call.pc = "handshake"
    /\ i_call' = [i_call EXCEPT !.pc = "done",
                                !.error = IF ok THEN "ok" ELSE HandshakeFailure]
    /\ i_client' = IF ok THEN NewImapClient(i_client.gen + 1)
                   ELSE [i_client EXCEPT !.usable = FALSE]
    /\ UNCHANGED <<i_server, i_sent>>

IFrame == UNCHANGED <<mvars, avars, svars, rvars, evars, tvars, cvars, dvars,
    xvars, pvars, lvars>>

INext ==
    \/ \E command \in ImapCommands : ImapCommand(command) /\ IFrame
    \/ ImapReadLine /\ IFrame
    \/ \E ok \in BOOLEAN : ImapStartTls(ok) /\ IFrame

(***************************************************************************)
(* IMAP: the response reader and its incremental parser.                   *)
(*                                                                         *)
(* l_dlg is the dialog of the client: the bytes the server has sent (all), *)
(* those still on the network (net) and read_buffer_.  l_rsp is the call   *)
(* of read_response_line in progress: the parser's members, the fragments  *)
(* and literals collected, and the response lines already returned.  The   *)
(* token lists are kept as one sequence in creation order; each token      *)
(* names the part it was pushed to and the LIST token holding it (0 for    *)
(* the part itself), which orders the tokens of a list as push_back does.  *)
(* The parser also records, for the claims, the LIST tokens opened and not *)
(* yet closed, and in each token whether the list it went to was one of    *)
(* them.                                                                   *)
(***************************************************************************)
MaxLine == 3

MaxLiteral == 2

MaxAstring == 2

MaxResponses == 2

OPTIONAL_BEGIN == 91

OPTIONAL_END == 93

LIST_BEGIN == 40

LIST_END == 41

STRING_LITERAL_BEGIN == 123

STRING_LITERAL_END == 125

QUOTED_ATOM == 34

\* codec::BACKSLASH_CHAR, the backslash the parser compares with at lines
\* 694 and 704.
BACKSLASH_CHAR == 92

ParserFailure == "Parser failure."

\* codec::escape_string: every character of the set gets a backslash
\* before it.
RECURSIVE EscapeString(_, _)
EscapeString(text, chars) ==
    IF text = <<>> THEN <<>>
    ELSE (IF Head(text) \in chars THEN <<BACKSLASH_CHAR, Head(text)>>
          ELSE <<Head(text)>>) \o EscapeString(Tail(text), chars)

\* codec::surround_string: the text between double quotes.
SurroundString(text) == <<QUOTED_ATOM>> \o text \o <<QUOTED_ATOM>>

\* imap_base::to_astring
ToAstring(text) ==
    SurroundString(EscapeString(text, {QUOTED_ATOM, BACKSLASH_CHAR}))

\* "* 1 FETCH (BODY[] {11}", "Hello World)", "A001 OK FETCH completed".
FetchWire ==
    <<42, 32, 49, 32, 70, 69, 84, 67, 72, 32, 40, 66, 79, 68, 89, 91, 93, 32,
      123, 49, 49, 125, CR, LF,
      72, 101, 108, 108, 111, 32, 87, 111, 114, 108, 100, 41, CR, LF,
      65, 48, 48, 49, 32, 79, 75, 32, 70, 69, 84, 67, 72, 32, 99, 111, 109,
      112, 108, 101, 116, 101, 100, CR, LF>>

\* "(a [b (c) d])"
NestedWire ==
    <<40, 97, 32, 91, 98, 32, 40, 99, 41, 32, 100, 93, 41, CR, LF>>

\* "{ 1}", the byte "a", and an empty continuation line.
SpacedLiteralWire == <<123, 32, 49, 125, CR, LF, 97, CR, LF>>

\* The bytes of the short response lines: the parser's delimiters, the
\* backslash, a space, a letter and a digit.
LineBytes ==
    {OPTIONAL_BEGIN, OPTIONAL_END, LIST_BEGIN, LIST_END, STRING_LITERAL_BEGIN,
     STRING_LITERAL_END, QUOTED_ATOM, BACKSLASH_CHAR, TOKEN_SEPARATOR_CHAR,
     97, 49}

ShortLines == SeqsUpTo(LineBytes, MaxLine)

\* What follows the line announcing a literal: the literal's bytes and the
\* continuation line.
LiteralBytes == {CR, LF, LIST_BEGIN, LIST_END, QUOTED_ATOM}

\* The line "{n}".
Announce(n) ==
    <<STRING_LITERAL_BEGIN>> \o ToDecimal(n) \o <<STRING_LITERAL_END>>

LiteralWires ==
    {Announce(n) \o <<CR, LF>> \o body \o <<CR, LF>> :
         n \in 0..MaxLiteral, body \in SeqsUpTo(LiteralBytes, MaxLiteral + 1)}

AstringBytes == {97, QUOTED_ATOM, BACKSLASH_CHAR, TOKEN_SEPARATOR_CHAR}

Astrings == SeqsUpTo(AstringBytes, MaxAstring)

\* What the server sends in a session.
Wires ==
    {FetchWire, NestedWire, SpacedLiteralWire}
        \cup {line \o <<CR, LF>> : line \in ShortLines}
        \cup LiteralWires
        \cup {ToAstring(s) \o <<CR, LF>> : s \in Astrings}

\* What back() of an empty std::string may read: some byte that is not a
\* backslash, or a backslash.
JunkBytes == {0, BACKSLASH_CHAR}

\* boost::trim of an atom.
RECURSIVE Rtrim(_)
Rtrim(text) ==
    IF text # <<>> /\ text[Len(text)] = TOKEN_SEPARATOR_CHAR
    THEN Rtrim(Take(text, Len(text) - 1)) ELSE text

Trim(text) == Rtrim(Ltrim(text))

\* A response_token_t as its constructor leaves it, with its place.
NewToken(type, part, parent, open) ==
    [token_type |-> type, atom |-> <<>>, literal |-> <<>>,
     literal_size |-> <<>>, part |-> part, parent |-> parent,
     into_open |-> parent = 0 \/ parent \in Range(open)]

\* imap_client::reset_response_parser
ResetParser ==
    [literal_state |-> "NONE", atom_state |-> "NONE",
     optional_part_state |-> FALSE, parenthesis_list_counter |-> 0,
     tokens |-> <<>>, cur_token |-> 0, open |-> <<>>, error |-> "none",
     ub |-> FALSE]

\* back() of a token list: the last token pushed to it, 0 when it is empty.
LastOf(tokens, part, list) ==
    LET members == {i \in DOMAIN tokens :
                        tokens[i].part = part /\ tokens[i].parent = list}
    IN  IF members = {} THEN 0
        ELSE CHOOSE i \in members : \A j \in members : j <= i

\* imap_client::find_last_token_list
RECURSIVE FindLastTokenList(_, _, _, _, _)
FindLastTokenList(tokens, part, list, depth, counter) ==
    LET last == LastOf(tokens, part, list)
    IN  IF last # 0 /\ tokens[last].token_type = "LIST" /\ depth <= counter
        THEN FindLastTokenList(tokens, part, last, depth + 1, counter)
        ELSE list

\* optional_part_state_ ? optional_part_ : mandatory_part_
CurrentPart(ps) == IF ps.optional_part_state THEN "optional" ELSE "mandatory"

\* make_shared, find_last_token_list and push_back, lines 609-612.
PushToken(ps, type) ==
    LET list == FindLastTokenList(ps.tokens, CurrentPart(ps), 0, 1,
                                  ps.parenthesis_list_counter)
    IN  [ps EXCEPT
           !.tokens = Append(@, NewToken(type, CurrentPart(ps), list, ps.open)),
           !.cur_token = Len(ps.tokens) + 1]

\* cur_token->atom += ch
AddToAtom(ps, ch) == [ps EXCEPT !.tokens[ps.cur_token].atom = Append(@, ch)]

\* throw imap_error("Parser failure.")
ParseFails(ps) == [ps EXCEPT !.error = ParserFailure]

\* token_list->back()->atom.back(): the last byte of the atom, and what
\* lies before the buffer when the atom is empty.
AtomBack(ps, junk) ==
    LET atom == ps.tokens[ps.cur_token].atom
    IN  IF atom = <<>> THEN junk ELSE atom[Len(atom)]

\* The atom under construction is empty, so that back() is out of range.
BackOutOfRange(ps) == ps.tokens[ps.cur_token].atom = <<>>

\* The default branch of the switch after the test for an escaped
\* backslash, lines 707-729.
ParseOther(ps, ch) ==
    IF ps.literal_state = "SIZE"
    THEN IF ~IsDigit(ch) THEN ParseFails(ps)
         ELSE [ps EXCEPT !.tokens[ps.cur_token].literal_size = Append(@, ch)]
    ELSE IF ps.literal_state = "WAITING" THEN ParseFails(ps)
    ELSE IF ps.atom_state = "NONE"
    THEN AddToAtom([PushToken(ps, "ATOM") EXCEPT !.atom_state = "PLAIN"], ch)
    ELSE AddToAtom(ps, ch)

\* imap_client::parse_response, one turn of the loop over the characters.
ParseChar(ps, ch, junk) ==
    LET quoted == ps.atom_state = "QUOTED"
    IN  CASE ch = OPTIONAL_BEGIN ->
                 IF quoted THEN AddToAtom(ps, ch)
                 ELSE IF ps.optional_part_state THEN ParseFails(ps)
                 ELSE [ps EXCEPT !.optional_part_state = TRUE]
          [] ch = OPTIONAL_END ->
                 IF quoted THEN AddToAtom(ps, ch)
                 ELSE IF ~ps.optional_part_state THEN ParseFails(ps)
                 ELSE [ps EXCEPT !.optional_part_state = FALSE,
                                 !.atom_state = "NONE"]
          [] ch = LIST_BEGIN ->
                 IF quoted THEN AddToAtom(ps, ch)
                 ELSE [PushToken(ps, "LIST") EXCEPT
                         !.parenthesis_list_counter = @ + 1,
                         !.open = Append(@, Len(ps.tokens) + 1),
                         !.atom_state = "NONE"]
          [] ch = LIST_END ->
                 IF quoted THEN AddToAtom(ps, ch)
                 ELSE IF ps.parenthesis_list_counter = 0 THEN ParseFails(ps)
                 ELSE [ps EXCEPT
                         !.parenthesis_list_counter = @ - 1,
                         !.open = Take(@, Len(@) - 1),
                         !.atom_state = "NONE"]
          [] ch = STRING_LITERAL_BEGIN ->
                 IF quoted THEN AddToAtom(ps, ch)
                 ELSE IF ps.literal_state = "SIZE" THEN ParseFails(ps)
                 ELSE [PushToken(ps, "LITERAL") EXCEPT
                         !.literal_state = "SIZE", !.atom_state = "NONE"]
          [] ch = STRING_LITERAL_END ->
                 IF quoted THEN AddToAtom(ps, ch)
                 ELSE IF ps.literal_state = "NONE" THEN ParseFails(ps)
                 ELSE [ps EXCEPT !.literal_state = "WAITING"]
          [] ch = TOKEN_SEPARATOR_CHAR ->
                 IF quoted THEN AddToAtom(ps, ch)
                 ELSE IF ps.cur_token # 0
                 THEN [ps EXCEPT !.tokens[ps.cur_token].atom = Trim(@),
                                 !.atom_state = "NONE"]
                 ELSE ps
          [] ch = QUOTED_ATOM ->
                 IF ps.atom_state = "NONE"
                 THEN [PushToken(ps, "ATOM") EXCEPT !.atom_state = "QUOTED"]
                 ELSE IF quoted
                 THEN IF AtomBack(ps, junk) # BACKSLASH_CHAR
                      THEN [ps EXCEPT !.atom_state = "NONE",
                                      !.ub = @ \/ BackOutOfRange(ps)]
                      ELSE IF BackOutOfRange(ps)
                      THEN [ps EXCEPT !.ub = TRUE]
                      ELSE [ps EXCEPT
                              !.tokens[ps.cur_token].atom =
                                  Append(Take(@, Len(@) - 1), ch)]
                 ELSE ps
          [] OTHER ->
                 IF ch = BACKSLASH_CHAR /\ quoted
                 THEN IF AtomBack(ps, junk) = BACKSLASH_CHAR
                      THEN [ps EXCEPT !.ub = @ \/ BackOutOfRange(ps)]
                      ELSE ParseOther([ps EXCEPT
                                         !.ub = @ \/ BackOutOfRange(ps)], ch)
                 ELSE ParseOther(ps, ch)

RECURSIVE ParseLoop(_, _, _)
ParseLoop(ps, line, junk) ==
    IF line = <<>> \/ ps.error # "none" THEN ps
    ELSE ParseLoop(ParseChar(ps, Head(line), junk), Tail(line), junk)

\* imap_client::parse_response: cur_token starts as a null pointer.
ParseResponse(ps, line, junk) ==
    ParseLoop([ps EXCEPT !.cur_token = 0], line, junk)

\* imap_client::pending_literal_token: the token, or 0 when it throws.
PendingLiteralToken(ps) ==
    LET list == FindLastTokenList(ps.tokens, CurrentPart(ps), 0, 1,
                                  ps.parenthesis_list_counter)
        last == LastOf(ps.tokens, CurrentPart(ps), list)
    IN  IF ps.literal_state # "WAITING" THEN 0
        ELSE IF last = 0 THEN 0
        ELSE IF ps.tokens[last].token_type # "LITERAL" THEN 0
        ELSE last

\* The bytes async_read_until may append to read_buffer_: none when the
\* buffer holds a line or the stream ends before the next LF, else any
\* number that brings the LF in.
ReadSizes(dlg) ==
    IF FindLF(dlg.read_buffer) # 0 \/ FindLF(dlg.read_buffer \o dlg.net) = 0
    THEN {0}
    ELSE {k \in 1..Len(dlg.net) :
              FindLF(dlg.read_buffer \o Take(dlg.net, k)) # 0}

\* dialog::read_line with k bytes arriving: the completion code, the line
\* and the dialog afterwards.
ReadLineFrom(dlg, k) ==
    LET buffer == dlg.read_buffer \o Take(dlg.net, k)
        pos == FindLF(buffer)
        served == ServeLine(buffer, pos, DEFAULT_MAX_LINE_LENGTH)
    IN  IF pos = 0
        THEN [ec |-> Eof, value |-> <<>>,
              dlg |-> [dlg EXCEPT !.read_buffer = @ \o dlg.net,
                                  !.net = <<>>]]
        ELSE [ec |-> served.ec, value |-> served.value,
              dlg |-> [dlg EXCEPT
                         !.read_buffer = Drop(buffer, Len(served.erased)),
                         !.net = Drop(@, k)]]

\* An output that hands over all that is buffered.
ExactOutWhole(buffer, n) == buffer

\* std::string out(read_buffer_.data(), n)
ExactOut(buffer, n) == Take(buffer, n)

\* dialog::read_exactly: the completion code, the bytes, the dialog
\* afterwards and the number of bytes fetched from the network.
ReadExactlyFrom(dlg, n) ==
    LET remaining == Shortfall(n, Len(dlg.read_buffer))
        buffer == dlg.read_buffer \o Take(dlg.net, remaining)
    IN  IF n = 0
        THEN [ec |-> "ok", value |-> <<>>, dlg |-> dlg, fetched |-> 0]
        ELSE IF Len(dlg.read_buffer) >= n
        THEN [ec |-> "ok", value |-> ExactOut(dlg.read_buffer, n),
              dlg |-> [dlg EXCEPT !.read_buffer = Drop(@, n)],
              fetched |-> 0]
        ELSE IF Len(dlg.net) < remaining
        THEN [ec |-> Eof, value |-> <<>>,
              dlg |-> [dlg EXCEPT !.read_buffer = @ \o dlg.net,
                                  !.net = <<>>],
              fetched |-> Len(dlg.net)]
        ELSE [ec |-> "ok", value |-> ExactOut(buffer, n),
              dlg |-> [dlg EXCEPT !.read_buffer = Drop(buffer, n),
                                  !.net = Drop(@, remaining)],
              fetched |-> remaining]

LNoCall ==
    [pc |-> "idle", parser |-> ResetParser, fragments |-> <<>>,
     literals |-> <<>>, fetched |-> <<>>, n |-> 0, error |-> "none",
     returned |-> <<>>]

LIdle ==
    /\ l_dlg = [all |-> <<>>, net |-> <<>>, read_buffer |-> <<>>]
    /\ l_rsp = LNoCall

\* A client whose constructor has reset the parser, and what the server is
\* going to send.
LInit ==
    /\ \E wire \in Wires :
          l_dlg = [all |-> wire, net |-> wire, read_buffer |-> <<>>]
    /\ l_rsp = LNoCall

\* read_response_line after a parse_response, lines 753-764 and 773: the
\* response is returned, or the literal the line announces is to be read,
\* or pending_literal_token or std::stoul has thrown.
Resume(rsp, ps) ==
    LET token == PendingLiteralToken(ps)
    IN  IF ps.error # "none"
        THEN [rsp EXCEPT !.parser = ps, !.pc = "failed", !.error = ps.error]
        ELSE IF ps.literal_state # "WAITING"
        THEN [rsp EXCEPT
                !.parser = ps, !.pc = "done", !.error = "ok",
                !.returned = Append(@, [fragments |-> rsp.fragments,
                                        literals |-> rsp.literals,
                                        tokens |-> ps.tokens])]
        ELSE IF token = 0 \/ ps.tokens[token].literal_size = <<>>
        THEN [rsp EXCEPT !.parser = ps, !.pc = "failed",
                         !.error = ParserFailure]
        ELSE [rsp EXCEPT !.parser = ps, !.pc = "literal",
                         !.n = Decimal(ps.tokens[token].literal_size)]

\* read_response_line, lines 748-752: the parser is reset, a line is read
\* and parsed.
ReadResponseLine(k, junk) ==
    /\ l_rsp.pc \in {"idle", "done"}
    /\ Len(l_rsp.returned) < MaxResponses
    /\ k \in ReadSizes(l_dlg)
    /\ LET rd == ReadLineFrom(l_dlg, k)
           rsp == [l_rsp EXCEPT !.fragments = <<rd.value>>,
                                !.literals = <<>>, !.fetched = <<>>,
                                !.n = 0]
       IN  /\ l_dlg' = rd.dlg
           /\ l_rsp' = IF rd.ec # "ok"
                       THEN [l_rsp EXCEPT !.parser = ResetParser,
                                          !.fragments = <<>>,
                                          !.literals = <<>>,
                                          !.fetched = <<>>, !.n = 0,
                                          !.pc = "failed", !.error = rd.ec]
                       ELSE Resume(rsp, ParseResponse(ResetParser, rd.value,
                                                      junk))

\* read_response_line, lines 765-768: the literal is read with read_exactly
\* and stored in the pending token.
ReadLiteral ==
    /\ l_rsp.pc = "literal"
    /\ LET rd == ReadExactlyFrom(l_dlg, l_rsp.n)
           token == PendingLiteralToken(l_rsp.parser)
       IN  /\ l_dlg' = rd.dlg
           /\ l_rsp' = IF rd.ec # "ok"
                       THEN [l_rsp EXCEPT !.pc = "failed", !.error = rd.ec]
                       ELSE [l_rsp EXCEPT
                               !.literals = Append(@, rd.value),
                               !.fetched = Append(@, rd.fetched),
                               !.parser.tokens[token].literal = rd.value,
                               !.parser.literal_state = "NONE",
                               !.pc = "continuation"]

\* read_response_line, lines 769-771: the continuation line is read and
\* parsed with the parser as the literal left it.
ReadContinuation(k, junk) ==
    /\ l_rsp.pc = "continuation"
    /\ k \in ReadSizes(l_dlg)
    /\ LET rd == ReadLineFrom(l_dlg, k)
           rsp == [l_rsp EXCEPT !.fragments = Append(@, rd.value)]
       IN  /\ l_dlg' = rd.dlg
           /\ l_rsp' = IF rd.ec # "ok"
                       THEN [l_rsp EXCEPT !.pc = "failed", !.error = rd.ec]
                       ELSE Resume(rsp, ParseResponse(l_rsp.parser, rd.value,
                                                      junk))

LFrame == UNCHANGED <<mvars, avars, svars, rvars, evars, tvars, cvars, dvars,
    xvars, pvars, ivars>>

LNext ==
    \/ \E k \in 0..Len(l_dlg.net), junk \in JunkBytes :
           ReadResponseLine(k, junk) /\ LFrame
    \/ ReadLiteral /\ LFrame
    \/ \E k \in 0..Len(l_dlg.net), junk \in JunkBytes :
           ReadContinuation(k, junk) /\ LFrame

(***************************************************************************)
(* Specifications: one per subsystem, the others at rest                   *)
(***************************************************************************)
InitMutex ==
    MInit /\ AIdle /\ SIdle /\ RInit /\ EIdle /\ TIdle /\
    CIdle /\ DIdle /\ XIdle /\ PIdle /\ IIdle /\ LIdle

SpecMutex == InitMutex /\ [][MNext]_vars

InitAuth ==
    AInit /\ MInit /\ SIdle /\ RInit /\ EIdle /\ TIdle /\
    CIdle /\ DIdle /\ XIdle /\ PIdle /\ IIdle /\ LIdle

SpecAuth == InitAuth /\ [][ANext]_vars

InitSend ==
    SInit /\ MInit /\ AIdle /\ RInit /\ EIdle /\ TIdle /\
    CIdle /\ DIdle /\ XIdle /\ PIdle /\ IIdle /\ LIdle

SpecSend == InitSend /\ [][SNext]_vars

InitReply ==
    RInit /\ MInit /\ AIdle /\ SIdle /\ EIdle /\ TIdle /\
    CIdle /\ DIdle /\ XIdle /\ PIdle /\ IIdle /\ LIdle

SpecReply == InitReply /\ [][RNext]_vars

InitEhlo ==
    EInit /\ MInit /\ AIdle /\ SIdle /\ RInit /\ TIdle /\
    CIdle /\ DIdle /\ XIdle /\ PIdle /\ IIdle /\ LIdle

SpecEhlo == InitEhlo /\ [][ENext]_vars

InitTls ==
    TInit /\ MInit /\ AIdle /\ SIdle /\ RInit /\ EIdle /\ CIdle /\
    DIdle /\ XIdle /\ PIdle /\ IIdle /\ LIdle

SpecTls == InitTls /\ [][TNext]_vars

InitCredentials ==
    CInit /\ MInit /\ AIdle /\ SIdle /\ RInit /\ EIdle /\
    TIdle /\ DIdle /\ XIdle /\ PIdle /\ IIdle /\ LIdle

SpecCredentials == InitCredentials /\ [][CNext]_vars

InitDialog ==
    DInit /\ MInit /\ AIdle /\ SIdle /\ RInit /\ EIdle /\
    TIdle /\ CIdle /\ XIdle /\ PIdle /\ IIdle /\ LIdle

SpecDialog == InitDialog /\ [][DNext]_vars

InitTimed ==
    XInit /\ MInit /\ AIdle /\ SIdle /\ RInit /\ EIdle /\
    TIdle /\ CIdle /\ DIdle /\ PIdle /\ IIdle /\ LIdle

SpecTimed == InitTimed /\ [][XNext]_vars

SpecTimedLive == InitTimed /\ [][XNext]_vars /\ XFairness

InitPop3 ==
    PInit /\ MInit /\ AIdle /\ SIdle /\ RInit /\ EIdle /\
    TIdle /\ CIdle /\ DIdle /\ XIdle /\ IIdle /\ LIdle

SpecPop3 == InitPop3 /\ [][PNext]_vars

InitImap ==
    IInit /\ MInit /\ AIdle /\ SIdle /\ RInit /\ EIdle /\
    TIdle /\ CIdle /\ DIdle /\ XIdle /\ PIdle /\ LIdle

SpecImap == InitImap /\ [][INext]_vars

InitResponse ==
    LInit /\ MInit /\ AIdle /\ SIdle /\ RInit /\ EIdle /\
    TIdle /\ CIdle /\ DIdle /\ XIdle /\ PIdle /\ IIdle

SpecResponse == InitResponse /\ [][LNext]_vars

(***************************************************************************)
(* Claims about the policy gate                                            *)
(***************************************************************************)

\* The policy refuses cleartext authentication on this session.
PolicyRefuses ==
    a_opts.require_tls_for_auth /\ ~a_opts.allow_cleartext_auth /\ ~a_tls

\* C1: with require_tls_for_auth, without allow_cleartext_auth and on a
\* stream that is not TLS, an authenticate or login call fails with
\* tls_required before any byte is written to the network.
C1_AuthRefusedBeforeNetwork ==
    PolicyRefuses =>
        /\ a_wire = <<>>
        /\ a_pc = "done" => a_result = TlsRequired

\* C2: ensure_auth_allowed fails with tls_required exactly when
\* require_tls_for_auth is set, the stream is not TLS and
\* allow_cleartext_auth is not set; in the seven other cases it returns ok.
C2_GateTruthTable ==
    a_gate # Unchecked =>
        /\ a_gate.error \in {"none", TlsRequired}
        /\ a_gate.error = TlsRequired <=> PolicyRefuses

\* C2 witness: the gate has been called on a session the policy refuses and
\* has refused it.
C2_Witness ==
    /\ a_gate.error = TlsRequired
    /\ PolicyRefuses

(***************************************************************************)
(* Claims about SMTP submission                                            *)
(***************************************************************************)

\* The class of reply a command requires: 3xx for DATA, 2xx for the others.
RequiredClass(command) == IF command.cmd = "DATA" THEN 3 ELSE 2

\* The server has answered the k-th command with the reply it requires.
Granted(k) ==
    /\ k <= Len(s_served)
    /\ s_served[k] \div 100 = RequiredClass(s_wire[k])

\* The server has answered the k-th command with a well-formed reply of
\* another class.
Refused(k) ==
    /\ k <= Len(s_served)
    /\ s_served[k] # 0
    /\ s_served[k] \div 100 # RequiredClass(s_wire[k])

\* MAIL FROM first, then RCPT TO commands, then DATA, then the message.
WireOrdered ==
    \A k \in 1..Len(s_wire) :
        IF k = 1 THEN s_wire[k].cmd = "MAIL FROM"
        ELSE <<s_wire[k - 1].cmd, s_wire[k].cmd>> \in
                {<<"MAIL FROM", "RCPT TO">>, <<"RCPT TO", "RCPT TO">>,
                 <<"MAIL FROM", "DATA">>, <<"RCPT TO", "DATA">>,
                 <<"DATA", "BODY">>}

CommandFailures == {SenderRejection, RecipientRejection, MessageRejection}

\* C8: a submission writes MAIL FROM, the RCPT TO commands, DATA and the
\* message in this order, each only after the server has answered the
\* command before it with the reply it requires; after a refusal nothing
\* more is written and the call ends with a command failure; the call
\* succeeds only when the message itself has been answered with 2xx.
C8_StepsWaitForReplies ==
    /\ WireOrdered
    /\ \A k \in 2..Len(s_wire) : Granted(k - 1)
    /\ \A k \in 1..Len(s_wire) :
        Refused(k) =>
            /\ Len(s_wire) = k
            /\ s_pc = "done" => s_result \in CommandFailures
    /\ s_result = "ok" =>
            /\ s_wire # <<>>
            /\ s_wire[Len(s_wire)].cmd = "BODY"
            /\ Granted(Len(s_wire))

\* Two addresses are the same up to the case of their ASCII letters.
UpperAscii(c) == IF c >= 97 /\ c <= 122 THEN c - 32 ELSE c

SameAddress(a, b) ==
    /\ Len(a) = Len(b)
    /\ \A i \in 1..Len(a) : UpperAscii(a[i]) = UpperAscii(b[i])

\* The addresses the recipients are taken from: the envelope's when it has
\* any, else those of To, Cc and Bcc in this order.
HeaderAddresses(boxes) == boxes.addresses \o Members(boxes.groups)

GivenRecipients ==
    IF s_env.rcpt_to # <<>> THEN s_env.rcpt_to
    ELSE HeaderAddresses(s_msg.to) \o HeaderAddresses(s_msg.cc)
            \o HeaderAddresses(s_msg.bcc)

\* The first occurrence of every distinct address of base from index j on.
RECURSIVE FirstOccurrences(_, _)
FirstOccurrences(base, j) ==
    IF j > Len(base) THEN <<>>
    ELSE (IF base[j] # <<>> /\ \A i \in 1..(j - 1) : ~SameAddress(base[i], base[j])
          THEN <<base[j]>> ELSE <<>>) \o FirstOccurrences(base, j + 1)

ExpectedRecipients == FirstOccurrences(GivenRecipients, 1)

\* The arguments of the RCPT TO commands written, in order.
RcptArgs(wire) ==
    LET rcpt == SelectSeq(wire, LAMBDA c : c.cmd = "RCPT TO")
    IN  [k \in 1..Len(rcpt) |-> rcpt[k].arg]

IsPrefix(p, q) == Len(p) <= Len(q) /\ \A k \in 1..Len(p) : p[k] = q[k]

DataWritten == \E k \in 1..Len(s_wire) : s_wire[k].cmd = "DATA"

\* C9: the RCPT TO commands of a submission name the envelope's recipients
\* when it has any and else the To, Cc and Bcc addresses, one command per
\* address distinct up to case, spelled as the address first occurs and in
\* the order of the first occurrences.
C9_RcptSetDeduplicated ==
    /\ IsPrefix(RcptArgs(s_wire), ExpectedRecipients)
    /\ DataWritten => RcptArgs(s_wire) = ExpectedRecipients

\* No envelope sender, no Sender and no From address.
NoSenderGiven ==
    /\ s_env.mail_from = <<>>
    /\ s_msg.sender = <<>>
    /\ \A j \in 1..Len(s_msg.from) : s_msg.from[j] = <<>>

\* C10: send() ends with an error and has written nothing when no sender is
\* given or when no recipient is left after the lookup and deduplication.
C10_AbortsBeforeWriting ==
    (s_variant = "send" /\ s_pc # "idle" /\ (NoSenderGiven \/ ExpectedRecipients = <<>>)) =>
        /\ s_wire = <<>>
        /\ s_pc = "done"
        /\ s_result \in {SenderMissing, NoRecipientsError}

\* C10 witness: send() has refused an envelope whose only recipient is an
\* empty address, the message naming a sender and a Bcc recipient.
C10_Witness ==
    /\ s_variant = "send" /\ s_pc = "done"
    /\ ~NoSenderGiven
    /\ s_env.rcpt_to # <<>>
    /\ ExpectedRecipients = <<>>
    /\ s_msg.bcc.addresses # <<>>
    /\ s_result = NoRecipientsError
    /\ s_wire = <<>>

(***************************************************************************)
(* Claims about the SMTP reply reader                                      *)
(***************************************************************************)

\* The number the first three characters of a line spell.
CodeOf(line) == (line[1] - 48) * 100 + (line[2] - 48) * 10 + (line[3] - 48)

\* A line carries the dash continuation marker.
HasDash(line) == Len(line) >= 4 /\ line[4] = 45

\* The text of a line: what follows its fourth character.
TextOf(line) == [k \in 1..(IF Len(line) > 4 THEN Len(line) - 4 ELSE 0) |-> line[k + 4]]

\* The read_reply calls that returned a reply.
Returned == {k \in 1..Len(r_calls) : r_calls[k].error = "none"}

\* C11: in every reply read_reply returns, each line carries the code of the
\* first line; a reply with a later line of another code is never returned.
C11_ContinuationCodesEqual ==
    \A k \in Returned :
        \A i \in 1..Len(r_calls[k].taken) :
            CodeOf(r_calls[k].taken[i]) = CodeOf(r_calls[k].taken[1])

RECURSIVE Concat(_)
Concat(seqs) == IF seqs = <<>> THEN <<>> ELSE Head(seqs) \o Concat(Tail(seqs))

\* C12: a read_reply call that returns has read the lines up to and
\* including the first one without the dash marker and no line after it; it
\* returns the code and the texts of these lines in order; the lines read by
\* the successive calls followed by the lines still buffered are the lines
\* the server sent, so the k-th call gets the k-th reply.
C12_ReadsOneWholeReply ==
    /\ \A k \in Returned :
        LET taken == r_calls[k].taken IN
        /\ taken # <<>>
        /\ \A i \in 1..(Len(taken) - 1) : HasDash(taken[i])
        /\ ~HasDash(taken[Len(taken)])
        /\ r_calls[k].status = CodeOf(taken[Len(taken)])
        /\ r_calls[k].lines = [i \in 1..Len(taken) |-> TextOf(taken[i])]
    /\ Concat([k \in 1..Len(r_calls) |-> r_calls[k].taken]) \o r_inbox = r_input

\* C12 witness: the greeting `220 smtp.example.com ESMTP` has been returned
\* as {220, ["smtp.example.com ESMTP"]}, a two-line reply has been returned
\* by the next call, and nothing is left over.
C12_Witness ==
    /\ Len(r_calls) = 2
    /\ r_calls[1].error = "none"
    /\ r_calls[1].status = 220
    /\ r_calls[1].lines = <<SubSeq(Line220, 5, Len(Line220))>>
    /\ r_calls[2].error = "none"
    /\ r_calls[2].taken = <<Line250Dash, Line250>>
    /\ r_inbox = <<>>

(***************************************************************************)
(* Claims about the EHLO exchange                                          *)
(***************************************************************************)

\* A reply that parsed and is not 2xx.
RefusedReply(r) == r.error = "none" /\ r.status \div 100 # 2

\* C13: ehlo writes HELO exactly once when the reply to EHLO is not 2xx and
\* writes nothing else; when HELO is refused too the call fails with the
\* initial rejection and the capability set is empty afterwards.
C13_HeloOnceThenClear ==
    /\ e_wire \in {<<>>, <<"EHLO">>, <<"EHLO", "HELO">>}
    /\ Len(e_wire) = 2 => RefusedReply(e_replies[1])
    /\ (Len(e_replies) >= 1 /\ RefusedReply(e_replies[1])) => Len(e_wire) = 2
    /\ (Len(e_replies) = 2 /\ RefusedReply(e_replies[2])) =>
            /\ e_pc = "idle"
            /\ e_result = InitialRejection
            /\ e_caps = NoEntries

\* The tokens of a line between its spaces, empty ones included.
RECURSIVE Split(_, _)
Split(line, token) ==
    IF line = <<>> THEN <<token>>
    ELSE IF Head(line) = 32 THEN <<token>> \o Split(Tail(line), <<>>)
    ELSE Split(Tail(line), Append(token, Head(line)))

Keyword(line) ==
    LET first == Head(Split(line, <<>>))
    IN  [i \in 1..Len(first) |-> UpperAscii(first[i])]

Parameters(line) == SelectSeq(Tail(Split(line, <<>>)), LAMBDA t : t # <<>>)

\* The capability map the lines give: per keyword the parameters of its
\* lines, in the order of the lines.
ExpectedEntries(lines) ==
    LET caplines == SelectSeq(lines, LAMBDA l : l # <<>>)
    IN  [key \in {Keyword(caplines[i]) : i \in 1..Len(caplines)} |->
            Concat([i \in 1..Len(caplines) |->
                IF Keyword(caplines[i]) = key THEN Parameters(caplines[i]) ELSE <<>>])]

\* ehlo has returned the reply to EHLO.
EhloAccepted ==
    /\ e_variant = "client" /\ e_pc = "idle" /\ e_result = "ok"
    /\ Len(e_replies) = 1

\* C14: after a successful EHLO the capability map is what the lines of
\* this reply give and nothing else: per line the first token uppercased
\* is the keyword, the other non-empty tokens are its parameters in order,
\* and lines with the same keyword have their parameters merged.
C14_CapabilitiesFromReply ==
    EhloAccepted =>
        LET lines == e_replies[1].lines IN
        \E start \in 1..2 :
            e_caps = ExpectedEntries(SubSeq(lines, start, Len(lines)))

\* C14 witness: the reply "mx", "SIZE 9", "size 7" has given the single
\* entry SIZE with the parameters 9 and 7.
C14_Witness ==
    /\ EhloAccepted
    /\ e_replies[1].lines = <<TextHost, TextSize, TextSizeLower>>
    /\ DOMAIN e_caps = {<<83, 73, 90, 69>>}
    /\ e_caps[<<83, 73, 90, 69>>] = <<<<57>>, <<55>>>>

\* C15: a single-line EHLO reply gives an empty capability map, and the
\* first line of a longer reply never gives an entry.
C15_GreetingLineSkipped ==
    EhloAccepted =>
        LET lines == e_replies[1].lines IN
        /\ Len(lines) = 1 => e_caps = NoEntries
        /\ Len(lines) > 1 => e_caps = ExpectedEntries(Tail(lines))

(***************************************************************************)
(* Claims about the TLS upgrade                                            *)
(***************************************************************************)

\* A call of smtp::client::start_tls has returned without an error.
SmtpStartTlsSucceeded ==
    /\ t_client = "smtp"
    /\ t_call.op = "start_tls"
    /\ t_pc = "idle"
    /\ t_result = "ok"

\* C16: after a successful SMTP start_tls the session's stream reports
\* is_tls(), and remote_host, the dialog's max line length and the dialog's
\* timeout have the values they had when start_tls was called.
C16_StartTlsKeepsSettings ==
    SmtpStartTlsSucceeded =>
        /\ t_dialog.has_value
        /\ IsTls(t_dialog.stream)
        /\ t_remote_host = t_call.host
        /\ t_dialog.max_line_length = t_call.max_line_length
        /\ t_dialog.timeout = t_call.timeout

\* A session with settings other than the defaults was upgraded by a
\* handshake.
C16_Witness ==
    /\ SmtpStartTlsSucceeded
    /\ t_dialog.stream.handshaken
    /\ t_dialog.max_line_length # DEFAULT_MAX_LINE_LENGTH
    /\ t_dialog.timeout # "nullopt"
    /\ t_remote_host \in Hosts

\* A start_tls call on a session opened in plain ended with a failed
\* handshake.
StartTlsHandshakeFailed ==
    /\ t_call.op = "start_tls"
    /\ t_call.mode # "implicit"
    /\ t_pc = "idle"
    /\ t_result = HandshakeFailure

\* C17: when the handshake started by start_tls fails the session's stream
\* is left usable and plain, and between calls a stream reports is_tls()
\* only if a handshake completed on it.
C17_FailedHandshakeLeavesPlain ==
    /\ StartTlsHandshakeFailed =>
            /\ t_dialog.has_value
            /\ Usable(t_dialog.stream)
            /\ ~IsTls(t_dialog.stream)
    /\ (t_pc = "idle" /\ t_call.mode # "implicit"
            /\ IsTls(t_dialog.stream)) => t_dialog.stream.handshaken

\* C18: with tls_mode::implicit connect upgrades the stream with the given
\* SNI before anything is read, so the greeting and everything exchanged
\* later goes over TLS.
C18_ImplicitTlsBeforeAnyRead ==
    t_call.mode = "implicit" =>
        /\ \A x \in t_io : x.tls
        /\ IsTls(t_dialog.stream)
        /\ t_dialog.stream.sni =
                EffectiveSni(t_call.connect_sni, t_remote_host)

\* An implicit-TLS session with a given SNI read its greeting and ran a
\* command.
C18_Witness ==
    /\ t_call.mode = "implicit"
    /\ t_call.connect_sni # ""
    /\ t_dialog.stream.sni = t_call.connect_sni
    /\ [what |-> "greeting", tls |-> TRUE] \in t_io
    /\ [what |-> "command", tls |-> TRUE] \in t_io

(***************************************************************************)
(* Claims about the SMTP credential exchange                               *)
(***************************************************************************)

\* "dXNlcg==", the Base64 of "user"
TextUserEncoded == <<100, 88, 78, 108, 99, 103, 61, 61>>

\* "cGFzcw==", the Base64 of "pass"
TextPassEncoded == <<99, 71, 70, 122, 99, 119, 61, 61>>

\* "AHVzZXIAcGFzcw==", the Base64 of NUL "user" NUL "pass"
TextPlainEncoded ==
    <<65, 72, 86, 122, 90, 88, 73, 65, 99, 71, 70, 122, 99, 119, 61, 61>>

\* A 2xx status.
TwoHundreds(status) == status >= 200 /\ status <= 299

\* The three lines of a LOGIN exchange for the call's credentials.
LoginLines ==
    <<TextAuthLogin, Base64(c_call.username), Base64(c_call.password)>>

\* C19: authenticate(login) writes AUTH LOGIN, Base64(username) and
\* Base64(password) in that order and nothing else (for user/pass: AUTH
\* LOGIN, dXNlcg==, cGFzcw==); the user name only after a 334 to AUTH
\* LOGIN, the password only after a 334 to the user name; it succeeds only
\* on a final 2xx, and a reply other than the expected one ends the call
\* with nothing more written.
C19_LoginExchange ==
    c_call.method = "login" =>
        /\ IsPrefix(c_wire, LoginLines)
        /\ (c_call.username = TextUser /\ c_call.password = TextPass) =>
               IsPrefix(c_wire,
                        <<TextAuthLogin, TextUserEncoded, TextPassEncoded>>)
        /\ Len(c_wire) >= 2 => c_replies[1] = 334
        /\ Len(c_wire) >= 3 => c_replies[2] = 334
        /\ c_result = "ok" =>
               Len(c_replies) = 3 /\ TwoHundreds(c_replies[3])
        /\ (c_replies # <<>> /\ Len(c_wire) = Len(c_replies)) =>
               c_pc = "done"

\* The last reply the call has read.
LastReply == c_replies[Len(c_replies)]

\* The blob of a PLAIN exchange for the call's credentials.
ExpectedBlob == Base64(<<0>> \o c_call.username \o <<0>> \o c_call.password)

\* C20: authenticate(plain) writes AUTH PLAIN and Base64(NUL username NUL
\* password); if and only if the answer is 334 it writes the same blob
\* alone once more; the call succeeds iff the last reply read is 2xx and
\* fails with the authentication rejection otherwise.
C20_PlainExchange ==
    c_call.method = "plain" =>
        /\ c_wire # <<>> => c_wire[1] = TextAuthPlain \o ExpectedBlob
        /\ (c_wire # <<>> /\ c_call.username = TextUser
                /\ c_call.password = TextPass) =>
               c_wire[1] = TextAuthPlain \o TextPlainEncoded
        /\ Len(c_wire) <= 2
        /\ Len(c_wire) = 2 <=> (c_replies # <<>> /\ c_replies[1] = 334)
        /\ Len(c_wire) = 2 => c_wire[2] = ExpectedBlob
        /\ c_pc = "done" =>
               /\ c_result = "ok" <=> TwoHundreds(LastReply)
               /\ c_result # "ok" => c_result = AuthenticationRejection
               /\ Len(c_replies) = Len(c_wire)

\* A PLAIN exchange for user/pass that was answered 334 and then 2xx.
C20_Witness ==
    /\ c_call.method = "plain"
    /\ c_call.username = TextUser /\ c_call.password = TextPass
    /\ c_wire = <<TextAuthPlain \o TextPlainEncoded, TextPlainEncoded>>
    /\ c_replies = <<334, 235>>
    /\ c_result = "ok"

(***************************************************************************)
(* Claims about the dialog's reads                                         *)
(***************************************************************************)

\* The bytes the first i completed calls erased from read_buffer_.
RECURSIVE ErasedUpTo(_)
ErasedUpTo(i) ==
    IF i = 0 THEN <<>> ELSE ErasedUpTo(i - 1) \o d_log[i].erased

\* The stream from the first byte that no call before the i-th consumed.
RestAt(i) == Drop(d_stream.all, Len(ErasedUpTo(i - 1)))

\* What the calls consumed, what is buffered and what is still to arrive
\* make up the stream: no byte lost, duplicated or reordered.
StreamConserved ==
    ErasedUpTo(Len(d_log)) \o d_buffer \o d_stream.net = d_stream.all

\* A line with its terminator, the terminator stripped: the CRLF when it
\* ends in CRLF, else the LF.
Stripped(line) ==
    IF Len(line) >= 2 /\ line[Len(line) - 1] = CR
    THEN Take(line, Len(line) - 2)
    ELSE Take(line, Len(line) - 1)

\* The completed calls of a kind that returned a string.
OkCalls(kind) ==
    {i \in 1..Len(d_log) : d_log[i].kind = kind /\ d_log[i].ec = "ok"}

\* C21: however the network splits the stream, each read_line that returns
\* a string returns the next line of the stream, the bytes up to the first
\* LF not consumed yet, without its single trailing CRLF or LF; what was
\* received beyond that LF stays buffered for the next call, and no byte is
\* lost, duplicated or reordered.
C21_ReadLineReturnsLinesInOrder ==
    /\ StreamConserved
    /\ \A i \in OkCalls("read_line") :
          /\ FindLF(RestAt(i)) # 0
          /\ d_log[i].erased = Take(RestAt(i), FindLF(RestAt(i)))
          /\ d_log[i].value = Stripped(d_log[i].erased)

\* A line ending in CRLF arrived in pieces together with the start of the
\* next line, and the next read_line was served from the buffer alone.
C21_Witness ==
    /\ Len(d_log) >= 2
    /\ {1, 2} \subseteq OkCalls("read_line")
    /\ d_log[1].value # <<>>
    /\ Len(d_log[1].erased) = Len(d_log[1].value) + 2
    /\ d_log[2].buffered > 0 /\ d_log[2].fetched = 0

\* The next line of the stream at the i-th call, when it is terminated.
NextLine(i) == Stripped(Take(RestAt(i), FindLF(RestAt(i))))

\* C22: a read_line whose next line has at most max_line_length bytes
\* returns it, and one whose next line is longer fails with the
\* line-too-long error (message_size), ending in CRLF or in LF; no call
\* returns a line cut short.
C22_CeilingIsExact ==
    \A i \in 1..Len(d_log) :
        (d_log[i].kind = "read_line" /\ FindLF(RestAt(i)) # 0) =>
            IF Len(NextLine(i)) <= d_stream.max
            THEN d_log[i].ec = "ok" /\ d_log[i].value = NextLine(i)
            ELSE d_log[i].ec = MessageSize /\ d_log[i].value = <<>>

\* C23: a read_exactly(n) that returns a string returns the next n bytes
\* of the stream and erases exactly them; it takes from the network only
\* what read_buffer_ lacks, nothing when n bytes are buffered; whatever the
\* interleaving of read_line and read_exactly, every call consumes the
\* stream where the previous one stopped and the rest stays buffered.
C23_ReadExactlyIsContiguous ==
    /\ \A i \in 1..Len(d_log) :
          d_log[i].erased = Take(RestAt(i), Len(d_log[i].erased))
    /\ ErasedUpTo(Len(d_log)) \o d_buffer =
          Take(d_stream.all, Len(d_stream.all) - Len(d_stream.net))
    /\ \A i \in OkCalls("read_exactly") :
          /\ Len(d_log[i].value) = d_log[i].n
          /\ d_log[i].value = Take(RestAt(i), d_log[i].n)
          /\ d_log[i].erased = d_log[i].value
          /\ d_log[i].fetched =
                IF d_log[i].buffered >= d_log[i].n
                THEN 0
                ELSE d_log[i].n - d_log[i].buffered

\* After a read_line that left bytes buffered, a read_exactly took part of
\* its bytes from the buffer and the shortfall from the network.
C23_Witness ==
    \E i \in OkCalls("read_exactly") :
        /\ i > 1
        /\ d_log[i - 1].kind = "read_line" /\ d_log[i - 1].ec = "ok"
        /\ d_log[i].buffered > 0
        /\ d_log[i].fetched > 0
        /\ d_log[i].n = d_log[i].buffered + d_log[i].fetched

(***************************************************************************)
(* Claims about timed dialog operations.                                   *)
(***************************************************************************)
\* An operation is in flight.
InFlight == x_op.io # "none"

\* The operation completed last had its socket operation cancelled by its
\* own timer.
OwnTimerCancelled == x_done.hit = "own"

\* C24: with a timeout configured, an operation whose own timer expires
\* while its socket operation is in flight has that operation cancelled and
\* completes with timed_out, never with operation_aborted; hence every
\* operation of a dialog with a timeout eventually completes.
C24_TimeoutCompletesWithTimedOut ==
    /\ [](OwnTimerCancelled => x_done.ec = TimedOut)
    /\ [](x_op.hit = "own" => x_op.io = OperationAborted /\ x_op.timed_out)
    /\ ((x_dlg.timeout /\ InFlight) ~> ~InFlight)

C24_Witness ==
    /\ x_dlg.timeout
    /\ OwnTimerCancelled
    /\ x_done.ec = TimedOut

\* The four cases of the rule, spelled on the last bytes of the text.
ExpectedWire(text) ==
    LET n == Len(text)
        last == IF n >= 1 THEN text[n] ELSE 0
        before == IF n >= 2 THEN text[n - 1] ELSE 0
    IN  CASE last = LF /\ before = CR -> text
          [] last = LF /\ before # CR -> SubSeq(text, 1, n - 1) \o <<CR, LF>>
          [] last = CR -> text \o <<LF>>
          [] OTHER -> text \o <<CR, LF>>

\* The write_line in flight, if there is one.
WrittenLines == {w \in {x_op} : w.kind = "write_line"}

\* C25: write_line sends the text normalised to end with exactly one CRLF
\* by the four-case rule; normalising is idempotent, so writing a
\* normalised text sends the same bytes as writing the text.
C25_WriteLineNormalizes ==
    \A w \in WrittenLines :
        /\ w.payload = ExpectedWire(w.text)
        /\ NormalizeLine(w.payload) = w.payload
        /\ NormalizeLine(NormalizeLine(w.text)) = NormalizeLine(w.text)

C25_Witness ==
    /\ x_op.kind = "write_line"
    /\ x_op.io = "ok"
    /\ x_op.text = <<97, CR>>
    /\ x_op.payload = <<97, CR, LF>>

(***************************************************************************)
(* Claims about POP3 commands.                                             *)
(***************************************************************************)
\* The lines of the answer after the first one, up to the first line that
\* is exactly ".".
PayloadOf(script) ==
    LET rest == Tail(script)
        ends == {i \in 1..Len(rest) : rest[i] = END_OF_DATA}
    IN  SubSeq(rest, 1, (CHOOSE i \in ends : \A j \in ends : i <= j) - 1)

\* One leading dot removed from a line that starts with a dot.
StripOneDot(line) ==
    IF line # <<>> /\ Head(line) = 46 THEN Tail(line) ELSE line

\* The result a command builds from payload lines that are already
\* stripped.
RECURSIVE ResultOf(_, _)
ResultOf(cmd, lines) ==
    IF lines = <<>> THEN EmptyValue(cmd)
    ELSE Accumulate(cmd, ResultOf(cmd, SubSeq(lines, 1, Len(lines) - 1)),
                    lines[Len(lines)])

\* A multi-line command has returned.
PayloadReturned ==
    /\ p_call.pc = "done"
    /\ MultiLine(p_call.cmd)
    /\ p_result.error = "ok"

\* C26: a multi-line payload ends at the first line that is exactly ".",
\* which is not part of the result; every payload line starting with "."
\* loses exactly one leading "."; retr returns the lines each followed by
\* CRLF, so "+OK 12 octets", "Hello", "..dotline", "." gives
\* "Hello\r\n.dotline\r\n".
C26_DotStuffingRemoved ==
    PayloadReturned =>
        LET payload == PayloadOf(p_call.script)
            stripped == [i \in 1..Len(payload) |-> StripOneDot(payload[i])]
        IN  /\ p_call.reads = Len(payload) + 2
            /\ p_server = SubSeq(p_call.script, Len(payload) + 3,
                                 Len(p_call.script))
            /\ p_result.value = ResultOf(p_call.cmd, stripped)

\* The part of C26 that holds: every payload loop but those of
\* pop3_client's LIST and UIDL.
C26_HoldsOutsideLegacyLists ==
    (p_call.client = "pop3_client" /\ p_call.cmd \in {"LIST", "UIDL"})
    \/ C26_DotStuffingRemoved

\* The example of the claim, reached with RETR of the stable client.
C26_Example ==
    (/\ p_call.pc = "done"
     /\ p_call.client = "pop3"
     /\ p_call.cmd = "RETR"
     /\ p_call.script =
            << <<43, 79, 75, 32, 49, 50, 32, 111, 99, 116, 101, 116, 115>>,
               <<72, 101, 108, 108, 111>>,
               <<46, 46, 100, 111, 116, 108, 105, 110, 101>>,
               END_OF_DATA >>)
    => p_result.value = <<72, 101, 108, 108, 111, 13, 10, 46, 100, 111, 116,
                          108, 105, 110, 101, 13, 10>>

\* The first token of a line, spelled on the line itself.
FirstTokenIs(line, token) ==
    /\ Len(line) >= Len(token)
    /\ SubSeq(line, 1, Len(token)) = token
    /\ (Len(line) > Len(token) => line[Len(token) + 1] = TOKEN_SEPARATOR_CHAR)

\* The first line has been read and classified.
StatusRead == p_call.pc \in {"payload", "done"} /\ p_call.script # <<>>

\* C27: the first reply line of a command is classified by its first
\* token: "+OK" lets the command proceed, "-ERR" makes it fail with the
\* command's failure carrying the server's text, anything else fails as
\* unparsable; after a failure no payload line is read.
C27_StatusLineClassified ==
    StatusRead =>
        LET first == Head(p_call.script)
        IN  /\ FirstTokenIs(first, OK_RESPONSE) =>
                   /\ p_result.error \notin
                          {UnknownResponseStatus, Pop3ErrorMessage(p_call.cmd)}
                   /\ (MultiLine(p_call.cmd) /\ p_call.pc = "done"
                       /\ p_result.error = "ok" => p_call.reads >= 2)
            /\ FirstTokenIs(first, ERR_RESPONSE) =>
                   /\ p_call.pc = "done"
                   /\ p_result.error = Pop3ErrorMessage(p_call.cmd)
                   /\ p_result.detail = SubSeq(first, 6, Len(first))
                   /\ p_call.reads = 1
                   /\ p_server = Tail(p_call.script)
            /\ (~FirstTokenIs(first, OK_RESPONSE)
                /\ ~FirstTokenIs(first, ERR_RESPONSE)) =>
                   /\ p_call.pc = "done"
                   /\ p_result.error = UnknownResponseStatus
                   /\ p_result.detail = first
                   /\ p_call.reads = 1
                   /\ p_server = Tail(p_call.script)

C27_Witness ==
    /\ p_call.pc = "done"
    /\ p_call.client = "pop3"
    /\ p_call.cmd = "RETR"
    /\ Len(p_call.script) >= 2
    /\ FirstTokenIs(Head(p_call.script), ERR_RESPONSE)
    /\ p_result.error = "Fetching message failure."
    /\ p_result.detail = <<110, 111, 32, 115, 117, 99, 104, 32, 109, 101, 115,
                           115, 97, 103, 101>>
    /\ p_call.reads = 1

(***************************************************************************)
(* Claims about IMAP commands.                                             *)
(***************************************************************************)
\* The first atom of a response line: the text before its first space.
FirstAtom(line) ==
    LET head == Head(line.fragments)
        pos == FindFrom(head, 32, 1)
    IN  IF pos = 0 THEN head ELSE SubSeq(head, 1, pos - 1)

\* The second atom of a response line.
SecondAtom(line) ==
    LET head == Head(line.fragments)
        pos == FindFrom(head, 32, 1)
        rest == IF pos = 0 THEN <<>> ELSE SubSeq(head, pos + 1, Len(head))
        end == FindFrom(rest, 32, 1)
    IN  IF end = 0 THEN rest ELSE SubSeq(rest, 1, end - 1)

\* The literals of some lines, in order.
RECURSIVE LiteralsOf(_)
LiteralsOf(lines) ==
    IF lines = <<>> THEN <<>>
    ELSE LiteralsOf(SubSeq(lines, 1, Len(lines) - 1))
             \o lines[Len(lines)].literals

\* The lines the command in progress has read.
Consumed == SubSeq(i_call.script, 1, Len(i_call.script) - Len(i_server))

\* command() has returned a response.
ImapReturned ==
    /\ i_call.pc \in {"done", "handshake"}
    /\ i_call.error \in {"ok", StartTlsFailure, CapabilityFailure,
                        HandshakeFailure}

\* C28: command() reads response lines up to the first line whose first
\* atom is the request's tag and stops there; the earlier lines are kept in
\* arrival order, the literals of all lines read are accumulated in
\* arrival order, and the response ends with the one tagged completion,
\* whose second atom is the status.
C28_ReadsUpToTaggedCompletion ==
    /\ i_call.pc = "reading" =>
           /\ \A k \in 1..Len(Consumed) : FirstAtom(Consumed[k]) # i_call.tag
           /\ i_call.lines = Consumed
    /\ i_call.pc \in {"done", "handshake"} =>
           /\ Consumed # <<>>
           /\ \A k \in 1..Len(Consumed) :
                  FirstAtom(Consumed[k]) = i_call.tag <=> k = Len(Consumed)
    /\ i_call.literals = LiteralsOf(Consumed)
    /\ ImapReturned =>
           /\ i_call.lines = Consumed
           /\ i_call.status = ParseStatusAtom(SecondAtom(Consumed[Len(Consumed)]))
           /\ IsTaggedStatus(i_call.status)

C28_Witness ==
    /\ ImapReturned
    /\ Len(i_call.lines) = 3
    /\ i_call.literals = << <<104, 105>> >>
    /\ i_call.status = "OK"
    /\ i_call.tag = <<49>>

\* A completion line carrying a tag other than the given one.
OtherCompletion(line, tag) ==
    /\ FirstAtom(line) # tag
    /\ FirstAtom(line) # <<>>
    /\ \A i \in 1..Len(FirstAtom(line)) : IsDigit(FirstAtom(line)[i])
    /\ IsTaggedStatus(ParseStatusAtom(SecondAtom(line)))

\* C29: when the server answers the command in flight with a completion
\* line carrying another tag, the command fails with the invalid-tag
\* error.
C29_TagSkewDetected ==
    (/\ i_call.pc \in {"done", "handshake"}
     /\ \E k \in 1..Len(Consumed) : OtherCompletion(Consumed[k], i_call.tag))
    => i_call.error = InvalidResponseTag

\* The invalid-tag error is never produced at all.
C29_InvalidTagNeverThrown == i_call.error # InvalidResponseTag

\* C30: the tag counter only grows: it is incremented before each command,
\* the command line is the decimal tag, a space, the command and CRLF, and
\* no two requests of a session share a tag, a start_tls in between
\* included.
C30_TagsNeverRepeat ==
    /\ \A k \in 1..Len(i_sent) :
           i_sent[k].command # <<>> =>
               i_sent[k].line = i_sent[k].tag \o <<32>> \o i_sent[k].command
                                    \o <<CR, LF>>
    /\ \A j, k \in 1..Len(i_sent) : j < k => i_sent[j].tag # i_sent[k].tag

\* The part of C30 that holds: the line format, and distinct growing tags
\* among the commands of one client object.
C30_HoldsWithinOneClient ==
    /\ \A k \in 1..Len(i_sent) :
           i_sent[k].command # <<>> =>
               i_sent[k].line = i_sent[k].tag \o <<32>> \o i_sent[k].command
                                    \o <<CR, LF>>
    /\ \A j, k \in 1..Len(i_sent) :
           (j < k /\ i_sent[j].gen = i_sent[k].gen) =>
               /\ i_sent[j].tag # i_sent[k].tag
               /\ Decimal(i_sent[j].tag) < Decimal(i_sent[k].tag)

(***************************************************************************)
(* Claims about the status of an IMAP tagged completion.                   *)
(***************************************************************************)
\* The completion line of the command: the last line it has read.
Completion == Consumed[Len(Consumed)]

\* The status atom of a line in lower case.
StatusWord(line) ==
    [i \in 1..Len(SecondAtom(line)) |-> ToLower(SecondAtom(line)[i])]

\* The text of a line after its status atom.
TextAfterStatus(line) ==
    LET head == Head(line.fragments)
        first == FindFrom(head, 32, 1)
        second == IF first = 0 THEN 0 ELSE FindFrom(head, 32, first + 1)
    IN  IF second = 0 THEN <<>> ELSE SubSeq(head, second + 1, Len(head))

\* The command has read its tagged completion.
Completed ==
    /\ i_call.pc \in {"done", "handshake"}
    /\ Consumed # <<>>
    /\ FirstAtom(Completion) = i_call.tag

\* C31: the status atom of a tagged completion is read without regard to
\* case.  OK makes the operation succeed; NO and BAD make an operation
\* that checks its response fail with its failure message followed by the
\* response text; any other atom is an invalid response status.
C31_StatusAtomDecidesOutcome ==
    Completed =>
        LET word == StatusWord(Completion)
            text == TextAfterStatus(Completion)
            checked == i_call.cmd \in {TextCapability, TextTls}
        IN  /\ word = <<111, 107>> =>
                   /\ i_call.status = "OK"
                   /\ i_call.error \in
                          {"ok"} \cup (IF i_call.cmd = TextTls
                                       THEN {HandshakeFailure} ELSE {})
            /\ word \in {<<110, 111>>, <<98, 97, 100>>} =>
                   /\ i_call.pc = "done"
                   /\ i_call.status = (IF word = <<110, 111>> THEN "NO"
                                       ELSE "BAD")
                   /\ i_call.text = text
                   /\ checked =>
                          /\ i_call.error \in {CapabilityFailure,
                                               StartTlsFailure}
                          /\ i_call.appended =
                                 (IF text = <<>> THEN <<>>
                                  ELSE <<32>> \o text)
                   /\ ~checked => i_call.error = "ok"
            /\ word \notin {<<111, 107>>, <<110, 111>>, <<98, 97, 100>>} =>
                   /\ i_call.pc = "done"
                   /\ i_call.error = InvalidResponseStatus

\* capability() answered "1 no denied": it fails with "Capability
\* failure. denied".
C31_Witness ==
    /\ Completed
    /\ i_call.cmd = TextCapability
    /\ Head(Completion.fragments) =
           <<49, 32, 110, 111, 32, 100, 101, 110, 105, 101, 100>>
    /\ i_call.status = "NO"
    /\ i_call.error = CapabilityFailure
    /\ i_call.appended = <<32, 100, 101, 110, 105, 101, 100>>

(***************************************************************************)
(* Claims about the timer of a completed operation.                        *)
(***************************************************************************)
\* A later operation had its socket operation cancelled by the wait
\* handler of an operation that had already completed.
CancelledByStaleTimer == x_op.hit = "stale" \/ x_done.hit = "stale"

\* C35: a timer that fires after its operation has completed is a no-op:
\* under every interleaving of the I/O completion and the expiry, it never
\* cancels the socket operation of a later operation of the dialog and
\* never makes that operation fail.
C35_StaleTimerIsNoOp ==
    /\ ~CancelledByStaleTimer
    /\ (x_done.ec = OperationAborted => x_done.hit = "own")

\* What does hold: a wait handler that was still armed when its operation
\* completed never runs, and one that runs with no operation in flight
\* changes nothing.
C35_ArmedTimerIsCancelled ==
    [][(x_op.timer = "armed" /\ x_op'.io = "none")
           => x_dlg'.stale = x_dlg.stale]_vars

(***************************************************************************)
(* Claims about command lines.                                             *)
(***************************************************************************)
\* The positions of the payload where a CRLF ends.
LineEnds(payload) ==
    {i \in 2..Len(payload) : payload[i - 1] = CR /\ payload[i] = LF}

\* The command being written, if there is one.
WrittenCommands == {w \in {x_op} : w.kind = "command"}

\* C40: every command written occupies exactly one CRLF-terminated line
\* on the wire whatever its argument is: a sender or recipient address, an
\* EHLO domain, a POP3 user name or password holding CR or LF adds no
\* further line.
C40_OneLinePerCommand ==
    \A w \in WrittenCommands :
        /\ LineEnds(w.payload) = {Len(w.payload)}
        /\ \A i \in 1..Len(w.payload) - 1 : w.payload[i] # LF

\* What does hold: the payload is the command text with one CRLF after it
\* and nothing of the argument is removed or escaped.
C40_ArgumentWrittenVerbatim ==
    \A w \in WrittenCommands :
        \/ w.payload = w.text
        \/ w.payload = w.text \o <<CR, LF>>

(***************************************************************************)
(* Claims about the read buffer across the TLS upgrade.                    *)
(***************************************************************************)
\* The session has been upgraded by start_tls and is ready for a read.
UpgradedByStartTls ==
    /\ t_pc = "idle"
    /\ t_call.op \in {"start_tls", "command"}
    /\ t_dialog.has_value
    /\ Secured(t_dialog.stream)

\* C37: after a successful STARTTLS or STLS upgrade no byte received in
\* plaintext before the handshake is returned by a later read: the
\* dialog's read buffer is empty when the first read after the upgrade
\* starts, in the SMTP client and in the POP3 client.
C37_NoPlaintextAfterUpgrade ==
    UpgradedByStartTls => t_dialog.read_buffer = "empty"

\* The SMTP client on its own: its upgrade builds a new dialog.
C37_SmtpBufferIsEmpty ==
    (t_client = "smtp" /\ UpgradedByStartTls)
    => t_dialog.read_buffer = "empty"

(***************************************************************************)
(* Claims about IMAP literals.                                             *)
(***************************************************************************)
\* The first line the server sent, without its CRLF.
FirstSentLine == Take(l_dlg.all, FindLF(l_dlg.all) - 2)

\* What the server sent after the first line.
AfterFirstLine == Drop(l_dlg.all, FindLF(l_dlg.all))

\* The state belongs to the first response of the session.
FirstResponse ==
    \/ l_rsp.returned = <<>>
    \/ Len(l_rsp.returned) = 1 /\ l_rsp.pc = "done"

\* The first line is "{n}" and nothing else.
Announces(n) == FirstSentLine = Announce(n)

\* The bytes of a text up to its first LF, without the CR before it.
LineOf(text) ==
    LET pos == FindLF(text)
    IN  IF pos > 1 /\ text[pos - 1] = CR THEN Take(text, pos - 2)
        ELSE Take(text, pos - 1)

\* C32: a literal announced as {n} is filled with the n bytes that follow
\* the CRLF of the announcing line, whatever they are, and the
\* continuation line is read right after them; for n = 0 the literal is
\* accepted and read_exactly fetches nothing from the network.  The read
\* fails only when the server sent fewer than n bytes or no continuation
\* line.
C32_LiteralIsTheDeclaredBytes ==
    \A n \in 0..MaxLiteral :
        (Announces(n) /\ FirstResponse) =>
            /\ l_rsp.literals # <<>> =>
                   /\ l_rsp.literals = <<Take(AfterFirstLine, n)>>
                   /\ Len(l_rsp.literals[1]) = n
                   /\ l_rsp.parser.tokens[1].token_type = "LITERAL"
                   /\ l_rsp.parser.tokens[1].literal = l_rsp.literals[1]
                   /\ n = 0 => l_rsp.fetched = <<0>>
            /\ l_rsp.pc = "continuation" =>
                   l_dlg.read_buffer \o l_dlg.net = Drop(AfterFirstLine, n)
            /\ Len(l_rsp.fragments) >= 2 =>
                   l_rsp.fragments[2] = LineOf(Drop(AfterFirstLine, n))
            /\ (l_rsp.pc = "failed" /\ Len(l_rsp.fragments) = 1) =>
                   /\ l_rsp.error = Eof
                   /\ \/ Len(AfterFirstLine) < n
                      \/ FindLF(Drop(AfterFirstLine, n)) = 0

\* "{2}" followed by the literal CR LF and the continuation line "(".
C32_Witness ==
    /\ l_dlg.all = Announce(2) \o <<CR, LF, CR, LF, LIST_BEGIN, CR, LF>>
    /\ l_rsp.pc = "done"
    /\ l_rsp.literals = << <<CR, LF>> >>
    /\ l_rsp.fragments = <<Announce(2), <<LIST_BEGIN>> >>

(***************************************************************************)
(* Claims about the FETCH example.                                         *)
(***************************************************************************)
\* The tokens a LIST token holds, in order of arrival.
TokensIn(tokens, list) ==
    {i \in DOMAIN tokens : tokens[i].parent = list
                               /\ tokens[i].part = tokens[list].part}

\* The token tree has a LIST holding an ATOM with the given text and a
\* LITERAL with the given bytes.
ListWithAtomAndLiteral(tokens, atom, literal) ==
    \E list \in DOMAIN tokens :
        /\ tokens[list].token_type = "LIST"
        /\ \E i \in TokensIn(tokens, list) :
               tokens[i].token_type = "ATOM" /\ tokens[i].atom = atom
        /\ \E i \in TokensIn(tokens, list) :
               tokens[i].token_type = "LITERAL" /\ tokens[i].literal = literal

TextHelloWorld == <<72, 101, 108, 108, 111, 32, 87, 111, 114, 108, 100>>

\* The example has been read: the FETCH line with its literal, and the
\* tagged OK with the text "FETCH completed".
FetchExampleRead ==
    /\ l_dlg.all = FetchWire
    /\ Len(l_rsp.returned) = 2
    /\ StartsWith(l_rsp.returned[1].fragments[1], <<42, 32>>)
    /\ l_rsp.returned[1].literals = <<TextHelloWorld>>
    /\ ParseTaggedStatus(l_rsp.returned[2].fragments[1], <<65, 48, 48, 49>>)
           = [error |-> "none", status |-> "OK",
              text |-> <<70, 69, 84, 67, 72, 32, 99, 111, 109, 112, 108,
                         101, 116, 101, 100>>]

\* C33: for the FETCH example the parser yields an untagged line whose
\* token tree has a LIST holding the ATOM "BODY[]" and a LITERAL equal to
\* "Hello World", followed by the tagged OK "FETCH completed".
C33_FetchExample ==
    (l_dlg.all = FetchWire /\ Len(l_rsp.returned) = 2) =>
        /\ FetchExampleRead
        /\ ListWithAtomAndLiteral(l_rsp.returned[1].tokens,
                                  <<66, 79, 68, 89, 91, 93>>, TextHelloWorld)

\* What the parser yields: the same with the ATOM "BODY".
C33_FetchExampleAtomBody ==
    (l_dlg.all = FetchWire /\ Len(l_rsp.returned) = 2) =>
        /\ FetchExampleRead
        /\ ListWithAtomAndLiteral(l_rsp.returned[1].tokens,
                                  <<66, 79, 68, 89>>, TextHelloWorld)

(***************************************************************************)
(* Claims about astrings.                                                  *)
(***************************************************************************)
\* The response line to_astring(s) has been parsed without any read out of
\* the range of a string.
AstringParsed(s) ==
    /\ l_dlg.all = ToAstring(s) \o <<CR, LF>>
    /\ Len(l_rsp.returned) = 1
    /\ l_rsp.pc = "done"
    /\ ~l_rsp.parser.ub

\* The tokens are one ATOM with the given text, and the atom is closed.
SingleAtom(s) ==
    /\ Len(l_rsp.returned[1].tokens) = 1
    /\ l_rsp.returned[1].tokens[1].token_type = "ATOM"
    /\ l_rsp.returned[1].tokens[1].atom = s

\* C34: for every string s without CR, LF and NUL, the parser reads
\* to_astring(s) as a single ATOM equal to s, also when s holds, begins
\* with or ends with a double quote or a backslash.
C34_AstringRoundTrips ==
    \A s \in Astrings : AstringParsed(s) => SingleAtom(s)

\* What does hold: the round trip of the strings without a backslash.
C34_RoundTripsWithoutBackslash ==
    \A s \in Astrings :
        (AstringParsed(s) /\ BACKSLASH_CHAR \notin Range(s)) => SingleAtom(s)

(***************************************************************************)
(* Claims about the parser's lists and errors.                             *)
(***************************************************************************)
\* The number of bytes c among the first k bytes of a line.
Count(line, c, k) == Cardinality({i \in 1..k : line[i] = c})

\* The line has neither a double quote nor a backslash: all of it is
\* outside quoted atoms.
QuoteFree(line) ==
    \A i \in 1..Len(line) : line[i] \notin {QUOTED_ATOM, BACKSLASH_CHAR}

\* A ")" with no list open.
ClosesNothing(line) ==
    \E j \in 1..Len(line) :
        /\ line[j] = LIST_END
        /\ Count(line, LIST_END, j - 1) >= Count(line, LIST_BEGIN, j - 1)

\* A "[" while the optional part is open.
OpensTwice(line) ==
    \E j \in 1..Len(line) :
        /\ line[j] = OPTIONAL_BEGIN
        /\ Count(line, OPTIONAL_BEGIN, j - 1) > Count(line, OPTIONAL_END, j - 1)

\* A "]" while the optional part is not open.
EndsNothing(line) ==
    \E j \in 1..Len(line) :
        /\ line[j] = OPTIONAL_END
        /\ Count(line, OPTIONAL_BEGIN, j - 1) <= Count(line, OPTIONAL_END, j - 1)

\* A "}" without a "{" before it.
BraceNotOpened(line) ==
    \E j \in 1..Len(line) :
        /\ line[j] = STRING_LITERAL_END
        /\ Count(line, STRING_LITERAL_BEGIN, j - 1) = 0

\* A byte that is not a digit between "{" and "}".
NonDigitInBraces(line) ==
    \E i, j, k \in 1..Len(line) :
        /\ i < j /\ j < k
        /\ line[i] = STRING_LITERAL_BEGIN
        /\ line[k] = STRING_LITERAL_END
        /\ \A m \in (i + 1)..(k - 1) :
               line[m] \notin {STRING_LITERAL_BEGIN, STRING_LITERAL_END}
        /\ ~IsDigit(line[j])

\* The first line has been read and the call has failed with the parser's
\* error.
FailedToParse ==
    /\ l_rsp.returned = <<>>
    /\ l_rsp.pc = "failed"
    /\ l_rsp.error = ParserFailure

\* The delimiters of the parser.
Delimiters ==
    {OPTIONAL_BEGIN, OPTIONAL_END, LIST_BEGIN, LIST_END, STRING_LITERAL_BEGIN,
     STRING_LITERAL_END}

\* The counter is the number of open lists, the four misplaced delimiters
\* fail, and a delimiter between double quotes is the text of an atom.
DepthAndDelimiters ==
    /\ l_rsp.parser.parenthesis_list_counter = Len(l_rsp.parser.open)
    /\ l_rsp.parser.parenthesis_list_counter >= 0
    /\ (/\ l_rsp.pc # "idle"
        /\ QuoteFree(FirstSentLine)
        /\ \/ ClosesNothing(FirstSentLine)
           \/ OpensTwice(FirstSentLine)
           \/ EndsNothing(FirstSentLine)
           \/ BraceNotOpened(FirstSentLine))
       => FailedToParse
    /\ \A c \in Delimiters :
           (l_rsp.pc # "idle" /\ FirstSentLine = <<QUOTED_ATOM, c, QUOTED_ATOM>>)
           => (/\ l_rsp.returned # <<>>
               /\ Len(l_rsp.returned[1].tokens) = 1
               /\ l_rsp.returned[1].tokens[1].token_type = "ATOM"
               /\ l_rsp.returned[1].tokens[1].atom = <<c>>)

\* C36: the parser's counter is the number of lists opened and not closed
\* and never negative, every new token goes to a list that is open; outside
\* a quoted atom a ")" with no list open, a "[" in the optional part, a "]"
\* outside it, a byte that is not a digit between "{" and "}" and a "}"
\* without a "{" each fail with the parser's error, and inside a quoted atom
\* these bytes are text.
C36_ListsAndDelimiters ==
    /\ DepthAndDelimiters
    /\ \A i \in DOMAIN l_rsp.parser.tokens : l_rsp.parser.tokens[i].into_open
    /\ (/\ l_rsp.pc # "idle"
        /\ QuoteFree(FirstSentLine)
        /\ NonDigitInBraces(FirstSentLine))
       => FailedToParse

\* What does hold: the counter, the four misplaced delimiters, the quoted
\* delimiters, and the place of the tokens of a response without an
\* optional part.
C36_HoldsWithoutOptionalPart ==
    /\ DepthAndDelimiters
    /\ OPTIONAL_BEGIN \notin Range(FirstSentLine) =>
           \A i \in DOMAIN l_rsp.parser.tokens :
               l_rsp.parser.tokens[i].into_open

(***************************************************************************)
(* Claims about async_mutex                                                *)
(***************************************************************************)

\* A guard owns the mutex from the moment lock() returns it until its
\* unlock() call has handed the mutex over inside async_mutex::unlock().
Owns(t, s) ==
    /\ mutex_[t][s]
    /\ ~(pc[t] \in {"u_ready", "u_cancel"} /\ op[t].dst = s)

OwningGuards == {g \in Tasks \X Slots : Owns(g[1], g[2])}

\* A waiter the mutex has been handed to and whose lock() call still runs.
HandedOver(w) ==
    /\ \E t \in Tasks : mine[t] = w
    /\ ready[w] \/ \E t \in Tasks : popped[t] = w

\* C3: under every interleaving of lock() calls, guard destructions and
\* cancellations, at most one scoped_lock owns the mutex at any time.
C3_MutualExclusion == Cardinality(OwningGuards) <= 1

\* C3 witness: a waiter already owns the mutex it was handed while the
\* previous holder is still inside unlock(), and another call is queued.
C3_Witness ==
    \E t, u \in Tasks :
        /\ t # u
        /\ Owns(t, "g")
        /\ pc[u] = "u_cancel"
        /\ waiters # <<>>

\* Queued earlier: both calls still run and w was pushed before v.
QueuedBefore(w, v) ==
    /\ w \in Range(arrival)
    /\ v \in Range(arrival)
    /\ IndexOf(arrival, w) < IndexOf(arrival, v)

FifoOrder ==
    \A w \in WaiterIds : \A v \in Range(waiters) :
        (HandedOver(w) /\ w \in Range(arrival)) => QueuedBefore(w, v)

HeldOrHandedOver ==
    \/ OwningGuards # {}
    \/ \E w \in WaiterIds : HandedOver(w)

FastPathStep(t) ==
    /\ pc[t] = "idle"
    /\ pc'[t] = "idle"
    /\ ~mutex_[t]["g"]
    /\ mutex_'[t]["g"]
    /\ owners' = owners + 1

\* C4: the mutex is FIFO fair: a waiter that is handed the mutex was queued
\* before every waiter still in the queue, and a lock() call that arrives
\* while the mutex is held or is being handed over never takes the fast
\* path past the queue.
C4_FifoFair ==
    /\ []FifoOrder
    /\ [][\A t \in Tasks : FastPathStep(t) => ~HeldOrHandedOver]_vars

\* C4 witness: a waiter has been handed the mutex while a waiter queued after
\* it is still in the queue.
C4_Witness ==
    \E w \in WaiterIds : \E v \in Range(waiters) :
        HandedOver(w) /\ ready[w] /\ QueuedBefore(w, v)

\* C5: a pending lock() that is cancelled while it waits completes with
\* lock_cancelled, not with a system error and not with a guard.
C5_CancelledThrowsLockCancelled ==
    [][\A t \in Tasks :
          (cancelled[t] /\ pc[t] \in {"purge", "acquire"} /\ pc'[t] = "idle")
              => outcome' = "lock_cancelled"]_vars

\* C6: the queue holds only waiters whose lock() call is still pending, each
\* once; a call that has ended left no waiter behind.
C6_QueueHoldsPendingOnly ==
    /\ \A w \in Range(waiters) :
          \E t \in Tasks : mine[t] = w /\ pc[t] \in {"await", "waiting", "purge"}
    /\ Cardinality(Range(waiters)) = Len(waiters)

\* C6 witness: a lock() call has ended by cancellation while another waiter
\* stays queued.
C6_Witness ==
    /\ outcome \in {"system_error", "lock_cancelled"}
    /\ waiters # <<>>
    /\ \E t \in Tasks : pc[t] = "idle" /\ ~Owning(t) /\ mine[t] = None

\* Every guard that owns accounts for one release still to come; a guard
\* that stopped owning has called async_mutex::unlock() once.
ReleasesAccounted == owners = Cardinality(OwningGuards)

\* The step of async_mutex::unlock() under waiters_mutex_.
ReleaseStep(t) ==
    /\ pc[t] = "unlock"
    /\ pc'[t] # "unlock"

\* A guard operation begins to release.
ReleaseBegins(t) ==
    /\ pc[t] = "idle"
    /\ pc'[t] = "unlock"

\* C7: destroying or move-assigning over a guard that owns the mutex
\* releases it exactly once: with an empty queue the mutex becomes unlocked,
\* with waiters it stays locked and goes to the front waiter; a guard
\* without a mutex releases nothing.
C7_GuardReleasesOnce ==
    /\ []ReleasesAccounted
    /\ [][\A t \in Tasks :
            /\ ReleaseBegins(t) => mutex_[t][op'[t].dst]
            /\ (ReleaseStep(t) /\ waiters = <<>>) =>
                    (locked' = FALSE /\ pc'[t] = "idle" /\ ~Owning(t)')
            /\ (ReleaseStep(t) /\ waiters # <<>>) =>
                    (locked' = TRUE /\ popped'[t] = arrival[1]
                     /\ waiters' = Tail(waiters))
            /\ (pc[t] = "u_ready" /\ pc'[t] = "u_cancel") => ready'[popped[t]]
          ]_vars

\* C7 witness: a move-assignment over an owning guard is handing the mutex
\* to the front waiter.
C7_Witness ==
    \E t \in Tasks :
        /\ pc[t] = "u_cancel"
        /\ op[t].kind = "assign"
        /\ ready[popped[t]]

\* A call whose waiter has been popped and marked ready, whose wait is in
\* flight, and which no unlock() is about to wake: only a cancellation
\* can end it.
Stranded(t) ==
    /\ pc[t] = "waiting"
    /\ timer[mine[t]] = "pending"
    /\ ready[mine[t]]
    /\ \A u \in Tasks : popped[u] # mine[t]

\* C38: no wake-up is lost: under every interleaving of the steps of
\* lock() (failed test-and-set, enqueue, start of the wait) with a
\* concurrent unlock(), the mutex is never unlocked while a waiter sits in
\* the queue, and no call is left waiting after its wake-up was issued.
C38_NoLostWakeup ==
    /\ ~(locked = FALSE /\ waiters # <<>>)
    /\ \A t \in Tasks : ~Stranded(t)

\* The second way to lose the wake-up, on its own.
C38_NoStrandedCall == \A t \in Tasks : ~Stranded(t)

\* C39: ownership is never lost: when the cancellation of a waiter races
\* with an unlock() that has already dequeued it, the mutex ends up
\* unlocked, owned by a live guard or handed to another waiter; it is
\* never locked with no owner.
C39_NeverLockedWithoutOwner == locked => HeldOrHandedOver

====
